---- MODULE Spec2Model ----
(***************************************************************************)
(* Model of the research pipeline of John-Swindell/data-engineering:       *)
(*   - GCSCachingManager (main_pipeline.py), the two-tier cache;           *)
(*   - get_cg_market_data / fetch_and_cache_coin_history, the per-asset    *)
(*     fetch with its retry loop (main_pipeline.py, create_universe.py);   *)
(*   - the point-in-time universe calculation (create_universe.py);        *)
(*   - STAGE 2 assembly and the final combination (main_pipeline.py).      *)
(* Each part has its own specification over the shared variables.          *)
(***************************************************************************)
EXTENDS Integers, Sequences, FiniteSets, TLC

VARIABLES
    \* --- GCSCachingManager ---
    local,        \* local_cache_dir: cache key -> file
    remote,       \* the GCS bucket: cache key -> blob
    last,         \* log of the last cache call (arguments, result, remote calls)
    last_set,     \* per key, the arguments and outcome of the latest set(key, .)
    promoted,     \* keys a get has downloaded from GCS into the local tier
    nops,         \* number of cache calls made so far
    \* --- get_cg_market_data (both scripts) ---
    cg,           \* the running call: attempt, full_data, outcome log, result
    ncalls,       \* number of get_cg_market_data calls started
    \* --- fetch_and_cache_coin_history ---
    cacher,       \* "gcs" (GCSCachingManager) or "dummy" (DummyCachingManager)
    maps,         \* ticker_map, llama_chain_map, llama_protocol_map for coin_id
    coin_id,      \* the asset being fetched
    pc,           \* position inside fetch_and_cache_coin_history
    cached_df,    \* what cacher.get(cache_key) returned
    cg_raw,       \* what get_cg_market_data returned
    final_coin_df,
    chain_tvl_df,
    protocol_data_df,
    lunarcrush_df,
    calls,        \* requests made to each data source by this call
    cache_sets,   \* cacher.set calls made by this call
    returned,     \* the value the call returned
    \* --- create_universe.py ---
    UNIVERSE_SIZE,          \* the configured N
    candidate_ids,          \* the candidate pool, in the order CoinGecko lists it
    cand_i,                 \* index of the candidate being processed
    all_histories,          \* the frames collected so far
    monthly_avg_mcap,       \* the grouped frame with its 'rank' column
    point_in_time_universe, \* month -> list of coin ids
    universe_file,          \* what was written to OUTPUT_FILE
    full_history_cache,     \* main: coin id -> full history, <<>> if not held
    coin_i,                 \* main: index of the coin STAGE 1 is fetching
    all_period_data,        \* main: the point-in-time slices, in append order
    master_df,              \* main: the final frame
    output_file,            \* main: what was written to OUTPUT_FILE
    run,                    \* main: 1 in the first run of the pipeline, 2 in a rerun
    earlier,                \* main: how the earlier run ended for the asset
    workers,                \* per asset, a call of fetch_and_cache_coin_history running beside the others
    tiers_at_start          \* the two tiers when the calls began

cache_vars == <<local, remote, last, last_set, promoted, nops>>

retry_vars == <<cg, ncalls>>

fetch_vars == <<cacher, maps, coin_id, pc, cached_df, cg_raw, final_coin_df,
                chain_tvl_df, protocol_data_df, lunarcrush_df, cache_sets,
                returned>>

universe_vars == <<UNIVERSE_SIZE, candidate_ids, cand_i, all_histories,
                   monthly_avg_mcap, point_in_time_universe, universe_file>>

assemble_vars == <<full_history_cache, coin_i, all_period_data, master_df,
                   output_file>>

vars == <<local, remote, last, last_set, promoted, nops, cg, ncalls, cacher,
          maps, coin_id, pc, cached_df, cg_raw, final_coin_df, chain_tvl_df,
          protocol_data_df, lunarcrush_df, calls, cache_sets, returned,
          UNIVERSE_SIZE, candidate_ids, cand_i, all_histories,
          monthly_avg_mcap, point_in_time_universe, universe_file,
          full_history_cache, coin_i, all_period_data, master_df, output_file,
          run, earlier, workers, tiers_at_start>>

run_vars == <<run, earlier, workers, tiers_at_start>>

(***************************************************************************)
(* Values.  A payload is a pandas DataFrame, a JSON-able dict, or None.    *)
(* All payloads share one record shape:                                    *)
(*   kind  "df" | "dict" | "none"                                          *)
(*   cols  DataFrame columns                                               *)
(*   rows  DataFrame row dates                                             *)
(*   cells DataFrame: <<column, date>> pairs that hold a value (not NaN);  *)
(*         dict: <<key, value>> items, a key being "str:x" or "int:x"      *)
(***************************************************************************)
None == [kind |-> "none", cols |-> {}, rows |-> {}, cells |-> {}]

EmptyDF == [kind |-> "df", cols |-> {}, rows |-> {}, cells |-> {}]

DF1 == [kind |-> "df", cols |-> {"a"}, rows |-> {1, 2},
        cells |-> {<<"a", 1>>, <<"a", 2>>}]

\* {gecko_id: slug}, the maps of create_defillama_protocol_map / get_all_chains_map
MAP_STR == [kind |-> "dict", cols |-> {}, rows |-> {},
            cells |-> {<<"str:bitcoin", 1>>, <<"str:ethereum", 2>>}]

\* a dict with integer keys, e.g. {1: ..., 2: ...}
MAP_INT == [kind |-> "dict", cols |-> {}, rows |-> {},
            cells |-> {<<"int:1", 1>>, <<"int:2", 2>>}]

Payloads == {DF1, MAP_STR, MAP_INT}

\* Cache keys: file_name = dir/name + ext
K_PARQUET == [dir |-> "coin_history", name |-> "bitcoin", ext |-> ".parquet"]

K_JSON == [dir |-> "maps", name |-> "llama_chain_map", ext |-> ".json"]

K_NOEXT == [dir |-> "coin_history", name |-> "bitcoin", ext |-> ""]

Keys == {K_PARQUET, K_JSON, K_NOEXT}

\* One cache key for every asset.
SharedHistoryKey(coin) == K_PARQUET

\* fetch_and_cache_coin_history: cache_key = f"coin_history/{coin_id}.parquet"
HistoryKey(coin) == [dir |-> "coin_history", name |-> coin, ext |-> ".parquet"]

FetchCoins == {"bitcoin", "ethereum"}

\* every file name either tier is asked for
AllKeys == Keys \cup {HistoryKey(c) : c \in FetchCoins}

\* Files of either tier
NoFile == [fmt |-> "absent", body |-> None]

PartialFile == [fmt |-> "partial", body |-> None]

\* json.dump writes every dict key as a string: 1 -> "1"
JsonKey(k) ==
    CASE k = "int:1" -> "str:1"
      [] k = "int:2" -> "str:2"
      [] OTHER -> k

JsonDump(data) ==
    [data EXCEPT !.cells = {<<JsonKey(item[1]), item[2]>> : item \in data.cells}]

\* set, lines 89-93: the format is chosen by the payload's type
Serialize(data) ==
    IF data.kind = "df"
    THEN [fmt |-> "parquet", body |-> data]
    ELSE [fmt |-> "json", body |-> JsonDump(data)]

\* _load_from_local: the format is chosen by the file name's extension; a
\* reader that raises is caught and None is returned
LoadFromLocal(key, file) ==
    IF key.ext = ".parquet"
    THEN IF file.fmt = "parquet" THEN file.body ELSE None
    ELSE IF key.ext = ".json"
         THEN IF file.fmt = "json" THEN file.body ELSE None
         ELSE None

WriteOutcomes == {"ok", "fail_nofile", "fail_partial"}

UploadOutcomes == {"ok", "fail"}

ExistsOutcomes == {"answer", "raise"}

DownloadOutcomes == {"ok", "fail_nofile", "fail_partial"}

\* A get that returns the blob's content on a GCS hit without writing the
\* local file.
CacheGetNoPromote(key, loc, rem, ex, dl) ==
    IF loc[key] # NoFile
    THEN [result |-> LoadFromLocal(key, loc[key]), raised |-> FALSE,
          local |-> loc, exists_calls |-> 0, downloads |-> 0]
    ELSE IF ex = "raise"
    THEN [result |-> None, raised |-> TRUE,
          local |-> loc, exists_calls |-> 1, downloads |-> 0]
    ELSE IF rem[key] = NoFile
    THEN [result |-> None, raised |-> FALSE,
          local |-> loc, exists_calls |-> 1, downloads |-> 0]
    ELSE [result |-> LoadFromLocal(key, rem[key]), raised |-> dl # "ok",
          local |-> loc, exists_calls |-> 1, downloads |-> 1]

\* A get that downloads without asking whether the blob exists; the
\* download of a missing blob raises and leaves an empty local file.
CacheGetWithoutExistsCheck(key, loc, rem, ex, dl) ==
    IF loc[key] # NoFile
    THEN [result |-> LoadFromLocal(key, loc[key]), raised |-> FALSE,
          local |-> loc, exists_calls |-> 0, downloads |-> 0]
    ELSE IF rem[key] # NoFile /\ dl = "ok"
    THEN [result |-> LoadFromLocal(key, rem[key]), raised |-> FALSE,
          local |-> [loc EXCEPT ![key] = rem[key]],
          exists_calls |-> 0, downloads |-> 1]
    ELSE [result |-> None, raised |-> TRUE,
          local |-> [loc EXCEPT ![key] = PartialFile],
          exists_calls |-> 0, downloads |-> 1]

(***************************************************************************)
(* GCSCachingManager.get(file_name).  ex and dl are the outcomes of        *)
(* blob.exists() and blob.download_to_filename() when they are called.     *)
(***************************************************************************)
CacheGet(key, loc, rem, ex, dl) ==
    IF loc[key] # NoFile
    THEN [result |-> LoadFromLocal(key, loc[key]), raised |-> FALSE,
          local |-> loc, exists_calls |-> 0, downloads |-> 0]
    ELSE IF ex = "raise"
    THEN [result |-> None, raised |-> TRUE,
          local |-> loc, exists_calls |-> 1, downloads |-> 0]
    ELSE IF rem[key] = NoFile
    THEN [result |-> None, raised |-> FALSE,
          local |-> loc, exists_calls |-> 1, downloads |-> 0]
    ELSE IF dl = "ok"
    THEN [result |-> LoadFromLocal(key, rem[key]), raised |-> FALSE,
          local |-> [loc EXCEPT ![key] = rem[key]],
          exists_calls |-> 1, downloads |-> 1]
    ELSE [result |-> None, raised |-> TRUE,
          local |-> IF dl = "fail_partial"
                    THEN [loc EXCEPT ![key] = PartialFile] ELSE loc,
          exists_calls |-> 1, downloads |-> 1]

\* A set that pushes to GCS whether or not the local write succeeded.
CacheSetUploadAnyway(key, data, loc, rem, wr, up) ==
    LET written == IF wr = "ok" THEN [loc EXCEPT ![key] = Serialize(data)]
                   ELSE IF wr = "fail_partial"
                   THEN [loc EXCEPT ![key] = PartialFile] ELSE loc
    IN  [local |-> written,
         remote |-> IF up = "ok" THEN [rem EXCEPT ![key] = written[key]] ELSE rem,
         raised |-> FALSE, warned |-> (wr # "ok" \/ up # "ok"), uploads |-> 1]

(***************************************************************************)
(* GCSCachingManager.set(file_name, data).  wr and up are the outcomes of  *)
(* the local write and of blob.upload_from_filename().  Every exception    *)
(* is caught by the except clause, which prints a warning.                 *)
(***************************************************************************)
CacheSet(key, data, loc, rem, wr, up) ==
    IF wr # "ok"
    THEN [local |-> IF wr = "fail_partial"
                    THEN [loc EXCEPT ![key] = PartialFile] ELSE loc,
          remote |-> rem, raised |-> FALSE, warned |-> TRUE, uploads |-> 0]
    ELSE LET written == [loc EXCEPT ![key] = Serialize(data)]
         IN  IF up = "ok"
             THEN [local |-> written,
                   remote |-> [rem EXCEPT ![key] = written[key]],
                   raised |-> FALSE, warned |-> FALSE, uploads |-> 1]
             ELSE [local |-> written, remote |-> rem,
                   raised |-> FALSE, warned |-> TRUE, uploads |-> 1]

(***************************************************************************)
(* get_cg_market_data.  A raw result is None or the dict the function      *)
(* returns: chart is the 'price_mcap_vol' entry ("absent" when the key is  *)
(* not in the dict, "no_prices" when its 'prices' list is empty), ohlc the *)
(* 'ohlc' entry, caps the 'market_caps' rows (create_universe.py only).    *)
(***************************************************************************)
NoneRaw == [kind |-> "none", chart |-> "absent", ohlc |-> "absent", caps |-> {}]

RawDict(chart, ohlc) ==
    [kind |-> "raw", chart |-> chart, ohlc |-> ohlc, caps |-> {}]

max_retries == 3

\* Exceptions the CoinGecko client raises, by what str(e) holds
Exceptions == {"429", "other"}

\* Every exception handled as a rate limit.
IsRateLimitAny(e) == TRUE

\* '429' in str(e), main_pipeline.py
IsRateLimit(e) == e = "429"

\* '429' in str(e), create_universe.py
IsRateLimitUniverse(e) == e = "429"

max_retries_universe == 3

ChartOutcomes == {"data", "no_prices"} \cup Exceptions

OhlcOutcomes == {"data", "empty"} \cup Exceptions

Sources == {"cg_chart", "cg_ohlc", "llama_chain", "llama_protocol",
            "llama_dex", "lunarcrush"}

NoCalls == [s \in Sources |-> 0]

CgIdle == [impl |-> "none", status |-> "idle", full_data |-> RawDict("absent", "absent"),
           log |-> <<>>, result |-> NoneRaw, raised |-> FALSE]

\* entry into get_cg_market_data: full_data = {}, attempt = 0
CgStart(impl) == [CgIdle EXCEPT !.impl = impl, !.status = "running"]

\* the except clause of main_pipeline.get_cg_market_data (lines 139-150) and
\* the loop's exit (lines 152-153), for exception e raised by `call`
CgMainExcept(c, fd, call, e) ==
    LET log == Append(c.log, [call |-> call, exc |-> e])
    IN  IF IsRateLimit(e)
        THEN IF Len(log) < max_retries
             THEN [c EXCEPT !.full_data = fd, !.log = log]
             ELSE [c EXCEPT !.full_data = fd, !.log = log,
                            !.status = "returned", !.result = NoneRaw]
        ELSE [c EXCEPT !.full_data = fd, !.log = log, !.status = "returned",
                       !.result = IF fd.chart # "absent" THEN fd ELSE NoneRaw]

\* An iteration that starts from an empty full_data.
CgMainStepFresh(c, chart, ohlc) ==
    LET fd0 == RawDict("absent", "absent")
    IN  IF chart \in Exceptions
        THEN CgMainExcept(c, fd0, "chart", chart)
        ELSE LET fd1 == [fd0 EXCEPT !.chart = chart]
             IN  IF ohlc \in Exceptions
                 THEN CgMainExcept(c, fd1, "ohlc", ohlc)
                 ELSE LET fd2 == [fd1 EXCEPT !.ohlc = ohlc]
                      IN  [c EXCEPT !.full_data = fd2,
                                    !.log = Append(c.log, [call |-> "none", exc |-> "none"]),
                                    !.status = "returned", !.result = fd2]

\* one iteration of the for loop of main_pipeline.get_cg_market_data
CgMainStep(c, chart, ohlc) ==
    IF chart \in Exceptions
    THEN CgMainExcept(c, c.full_data, "chart", chart)
    ELSE LET fd1 == [c.full_data EXCEPT !.chart = chart]
         IN  IF ohlc \in Exceptions
             THEN CgMainExcept(c, fd1, "ohlc", ohlc)
             ELSE LET fd2 == [fd1 EXCEPT !.ohlc = ohlc]
                  IN  [c EXCEPT !.full_data = fd2,
                                !.log = Append(c.log, [call |-> "none", exc |-> "none"]),
                                !.status = "returned", !.result = fd2]

(***************************************************************************)
(* The DataFrames of fetch_and_cache_coin_history.  Dates are 1..3; the    *)
(* market chart covers 1..2, and date 3 is known to secondary sources only.*)
(***************************************************************************)
IdCols == {"date", "coin_id", "ticker"}

PrimaryDates == {1, 2}

OhlcDates == {2}

ChainDates == {2, 3}

TvlDates == {1, 3}

DexDates == {2}

LunarDates == {1, 2, 3}

LunarCols == {"lc_galaxy_score", "lc_alt_rank", "lc_social_dominance", "lc_sentiment"}

Frame(cols, rows, cells) ==
    [kind |-> "df", cols |-> cols, rows |-> rows, cells |-> cells]

IsEmpty(df) == df.rows = {} \/ df.cols = {}

\* process_market_data_to_df (main_pipeline.py)
MarketDF(raw) ==
    IF raw.kind = "none" \/ raw.chart # "data"
    THEN EmptyDF
    ELSE Frame(IdCols \cup {"close", "volume", "market_cap"}
                 \cup (IF raw.ohlc = "data" THEN {"open", "high", "low"} ELSE {}),
               PrimaryDates,
               ({"close", "volume", "market_cap"} \X PrimaryDates)
                 \cup (IF raw.ohlc = "data"
                       THEN {"open", "high", "low"} \X (PrimaryDates \cap OhlcDates)
                       ELSE {}))

\* the llama.fi/charts request and process_chain_tvl_to_df
ChainOutcomes == {"raise", "not_ok", "no_tvl", "data"}

ChainDF(out) ==
    IF out = "data"
    THEN Frame(IdCols \cup {"chain_tvl"}, ChainDates, {"chain_tvl"} \X ChainDates)
    ELSE EmptyDF

\* get_and_process_protocol_data; tvl and dex are the outcomes of its two requests
ProtocolOutcomes == {"raise", "not_ok", "empty", "data"}

ProtocolDF(tvl, dex) ==
    IF tvl # "data" /\ dex # "data"
    THEN EmptyDF
    ELSE Frame(IdCols \cup {"protocol_tvl", "dex_volume"},
               (IF tvl = "data" THEN TvlDates ELSE {})
                 \cup (IF dex = "data" THEN DexDates ELSE {}),
               (IF tvl = "data" THEN {"protocol_tvl"} \X TvlDates ELSE {})
                 \cup (IF dex = "data" THEN {"dex_volume"} \X DexDates ELSE {}))

\* get_and_process_lunarcrush_data
LunarOutcomes == {"raise", "not_ok", "no_data", "data"}

LunarDF(out) ==
    IF out = "data"
    THEN Frame({"date", "coin_id"} \cup LunarCols, LunarDates, LunarCols \X LunarDates)
    ELSE EmptyDF

\* A merge with how='outer': the dates of both frames are kept.
OuterMerge(left, right, cols) ==
    Frame(left.cols \cup cols, left.rows \cup right.rows,
          left.cells \cup {cell \in right.cells : cell[1] \in cols})

\* pd.merge(left, right[keys + cols], on=['date', 'coin_id'], how='left')
LeftMerge(left, right, cols) ==
    Frame(left.cols \cup cols, left.rows,
          left.cells \cup {cell \in right.cells : cell[1] \in cols /\ cell[2] \in left.rows})

\* Step 4 of fetch_and_cache_coin_history (lines 422-432)
MergeAll(base, chain, protocol, lunar) ==
    LET m1 == IF ~IsEmpty(chain) THEN LeftMerge(base, chain, {"chain_tvl"}) ELSE base
        data_columns == {"protocol_tvl", "dex_volume"} \cap protocol.cols
        m2 == IF ~IsEmpty(protocol) /\ data_columns # {}
              THEN LeftMerge(m1, protocol, data_columns) ELSE m1
        m3 == IF ~IsEmpty(lunar) THEN LeftMerge(m2, lunar, lunar.cols \ {"date", "coin_id"})
              ELSE m2
    IN  m3

(***************************************************************************)
(* create_universe.py.  Coin ids are numbered in the lexicographic order   *)
(* of their id strings; dates are days 0..MaxDate, day 0 lying before      *)
(* START_DATE; a market cap is a value or NaN (a null in the response).    *)
(***************************************************************************)
UCoins == {1, 2}

CapValues == {1, 2}

NaN == -1

MaxDate == 3

DaysPerMonth == 2

MaxRows == 3

MaxUniverseSize == 2

UNIVERSE_START_DATE == 1

UDates == 0..MaxDate

\* dt.to_period('M'): day 0 is month 0, days 1..DaysPerMonth month 1, ...
Month(d) == (d + DaysPerMonth - 1) \div DaysPerMonth

\* month.to_timestamp().strftime('%Y-%m-01'): the month's first day
MonthKey(m) == (m - 1) * DaysPerMonth + 1

Months == {Month(d) : d \in UDates}

\* the [timestamp, market_cap] pairs of a 'market_caps' list
\* a missing market cap (NaN) is drawn on one day only: dropna (line 107)
\* does not look at the date
MarketRows ==
    (UDates \X CapValues) \cup {<<UNIVERSE_START_DATE, NaN>>}

RECURSIVE SubsetsUpTo(_, _)
SubsetsUpTo(S, n) ==
    IF n <= 0 THEN {{}}
    ELSE LET smaller == SubsetsUpTo(S, n - 1)
         IN  smaller \cup {T \cup {x} : T \in smaller, x \in S}

\* candidate pools: the listed ids, each once, in any order
RECURSIVE Pools(_)
Pools(S) ==
    {<<>>} \cup UNION {{<<c>> \o rest : rest \in Pools(S \ {c})} : c \in S}

\* one iteration of the for loop of create_universe.get_cg_market_data
CgUniverseStep(c, out, caps) ==
    IF out \in Exceptions
    THEN LET log == Append(c.log, [call |-> "chart", exc |-> out])
         IN  IF IsRateLimitUniverse(out) /\ Len(log) < max_retries_universe
             THEN [c EXCEPT !.log = log]
             ELSE [c EXCEPT !.log = log, !.status = "returned", !.result = NoneRaw]
    ELSE [c EXCEPT !.log = Append(c.log, [call |-> "none", exc |-> "none"]),
                   !.status = "returned",
                   !.result = [kind |-> "raw", chart |-> "data",
                               ohlc |-> "absent", caps |-> caps]]

\* process_market_data_to_df (create_universe.py): an empty 'market_caps'
\* gives pd.DataFrame(), a frame with no rows and no columns
ProcessCaps(raw, coin) == [coin_id |-> coin, rows |-> raw.caps]

RECURSIVE RowsUsed(_)
RowsUsed(hist) ==
    IF hist = <<>> THEN 0
    ELSE Cardinality(hist[1].rows) + RowsUsed(Tail(hist))

\* line 105: pd.concat(all_histories) has a 'date' column only if some frame has
HasDateColumn(hist) == \E i \in 1..Len(hist) : hist[i].rows # {}

\* lines 105-107: concat, date >= START_DATE, dropna(market_cap)
MasterRows(hist) ==
    LET concat == UNION {{[coin_id |-> hist[i].coin_id, date |-> r[1],
                           market_cap |-> r[2]] : r \in hist[i].rows}
                         : i \in 1..Len(hist)}
    IN  {r \in concat : r.date >= UNIVERSE_START_DATE /\ r.market_cap # NaN}

\* A grouping by coin that takes in every row from the month on.
GroupRowsFromMonthOn(master, m, coin) ==
    {r \in master : r.coin_id = coin /\ Month(r.date) >= m}

\* lines 110-111: the rows of one (month, coin_id) group
GroupRows(master, m, coin) ==
    {r \in master : r.coin_id = coin /\ Month(r.date) = m}

RECURSIVE SumCaps(_)
SumCaps(R) ==
    IF R = {} THEN 0
    ELSE LET r == CHOOSE r \in R : TRUE
         IN  r.market_cap + SumCaps(R \ {r})

RECURSIVE OrderByWeight(_)
OrderByWeight(S) ==
    IF S = {} THEN <<>>
    ELSE LET k == CHOOSE k \in S : \A o \in S : k[1] <= o[1]
         IN  <<k>> \o OrderByWeight(S \ {k})

PositionIn(hist, coin) == CHOOSE i \in 1..Len(hist) : hist[i].coin_id = coin

\* groupby(..., sort=False): groups in the order they first appear in
\* master_df, which is the candidate order.
GroupOrderFirstSeen(keys, hist) ==
    OrderByWeight({<<PositionIn(hist, k[2]) * (MaxDate + 2) + k[1], k[1], k[2]>>
                   : k \in keys})

\* line 111: groupby(['month', 'coin_id']) sorts the groups by month, then
\* by coin_id
GroupOrder(keys, hist) ==
    OrderByWeight({<<k[1] * (Cardinality(UCoins) + 2) + k[2], k[1], k[2]>>
                   : k \in keys})

\* line 111: the grouped frame, its mean kept as sum and count
MonthlyMeans(hist) ==
    LET master == MasterRows(hist)
        keys == {<<Month(r.date), r.coin_id>> : r \in master}
        order == GroupOrder(keys, hist)
    IN  [i \in 1..Len(order) |->
           LET rows == GroupRows(master, order[i][2], order[i][3])
           IN  [month |-> order[i][2], coin_id |-> order[i][3],
                sum |-> SumCaps(rows), count |-> Cardinality(rows)]]

MeanGreater(a, b) == a.sum * b.count > b.sum * a.count

MeanEqual(a, b) == a.sum * b.count = b.sum * a.count

\* line 114: rank(method='first', ascending=False) within the month: equal
\* means are ranked in the order they appear in the frame
RankFirst(frame, i) ==
    1 + Cardinality({j \in 1..Len(frame) :
                       /\ frame[j].month = frame[i].month
                       /\ \/ MeanGreater(frame[j], frame[i])
                          \/ (MeanEqual(frame[j], frame[i]) /\ j < i)})

Ranked(frame) ==
    [i \in 1..Len(frame) |->
       [month |-> frame[i].month, coin_id |-> frame[i].coin_id,
        sum |-> frame[i].sum, count |-> frame[i].count,
        rank |-> RankFirst(frame, i)]]

\* A filter that stops one rank short.
IsBelowN(row, n) == row.rank < n

\* line 117: monthly_avg_mcap['rank'] <= UNIVERSE_SIZE
IsTopN(row, n) == row.rank <= n

\* lines 117-125: top N per month, keyed by the month's first day
UniverseDict(ranked, n) ==
    LET top_n_df == SelectSeq(ranked, LAMBDA row : IsTopN(row, n))
        months == {top_n_df[i].month : i \in 1..Len(top_n_df)}
    IN  [key \in {MonthKey(m) : m \in months} |->
           LET group == SelectSeq(top_n_df, LAMBDA row : MonthKey(row.month) = key)
           IN  [i \in 1..Len(group) |-> group[i].coin_id]]

NoUniverse == [key \in {} |-> <<>>]

\* lines 101-125 as a function of the collected frames
UniverseOf(hist, n) ==
    IF hist = <<>>
    THEN [status |-> "fatal", frame |-> <<>>, universe |-> NoUniverse]
    ELSE IF ~HasDateColumn(hist)
    THEN [status |-> "crashed", frame |-> <<>>, universe |-> NoUniverse]
    ELSE LET ranked == Ranked(MonthlyMeans(hist))
         IN  [status |-> "ok", frame |-> ranked,
              universe |-> UniverseDict(ranked, n)]

NotWritten == [written |-> FALSE, content |-> NoUniverse]

UniverseIdle ==
    /\ UNIVERSE_SIZE = 1
    /\ candidate_ids = <<>>
    /\ cand_i = 1
    /\ all_histories = <<>>
    /\ monthly_avg_mcap = <<>>
    /\ point_in_time_universe = NoUniverse
    /\ universe_file = NotWritten

(***************************************************************************)
(* main_pipeline.py, the main block.  A history is the sequence of the     *)
(* dates of its rows; a row of a frame carries its coin id, its date and   *)
(* n, its position in the history it was sliced from.                      *)
(***************************************************************************)
START_DATE == 1

ACoins == {"bitcoin", "wrapped-bitcoin"}

\* sorted(...) over the coin ids
SortedIds == <<"binance-peg-weth", "bitcoin", "staked-ether", "weth",
               "wrapped-bitcoin", "wrapped-steth">>

IdRank(id) == CHOOSE i \in 1..Len(SortedIds) : SortedIds[i] = id

\* A mapping that leaves every id as it is.
RawId(id) == id

\* line 528: the keys of canonical_map
CanonicalKeys == {"binance-peg-weth", "wrapped-steth", "wrapped-bitcoin"}

\* line 528-529: canonical_map, then fillna(coin_id)
CanonicalId(id) ==
    CASE id = "binance-peg-weth" -> "weth"
      [] id = "wrapped-steth" -> "staked-ether"
      [] id = "wrapped-bitcoin" -> "bitcoin"
      [] OTHER -> id

RECURSIVE SeqsUpTo(_, _)
SeqsUpTo(S, n) ==
    IF n <= 0 THEN {<<>>}
    ELSE LET shorter == SeqsUpTo(S, n - 1)
         IN  shorter \cup {Append(q, x) : q \in shorter, x \in S}

\* the universe files main_pipeline may load: some months, each with a
\* non-empty list of distinct coin ids
Universes ==
    UNION {[{MonthKey(m) : m \in ms} -> Pools(ACoins) \ {<<>>}]
           : ms \in SUBSET (Months \ {0})}

RECURSIVE SortedKeys(_)
SortedKeys(S) ==
    IF S = {} THEN <<>>
    ELSE LET k == CHOOSE k \in S : \A o \in S : k <= o
         IN  <<k>> \o SortedKeys(S \ {k})

\* line 486
AllUniqueCoins(universe) ==
    SelectSeq(SortedIds,
              LAMBDA id : \E k \in DOMAIN universe :
                             \E i \in 1..Len(universe[k]) : universe[k][i] = id)

NoHistories == [c \in ACoins |-> <<>>]

RECURSIVE HistoryRows(_, _)
HistoryRows(cache, coins) ==
    IF coins = {} THEN 0
    ELSE LET c == CHOOSE c \in coins : TRUE
         IN  Len(cache[c]) + HistoryRows(cache, coins \ {c})

FrameOf(coin, history) ==
    [i \in 1..Len(history) |-> [coin_id |-> coin, date |-> history[i], n |-> i]]

\* A slice that keeps the whole history.
SliceAll(df, period_date) == df

\* line 515: full_coin_history[full_coin_history['date'] <= period_date]
Slice(df, period_date) == SelectSeq(df, LAMBDA r : r.date <= period_date)

\* lines 512-516 for one period
SlicesOfPeriod(universe, cache, period) ==
    LET held == SelectSeq(universe[period], LAMBDA c : cache[c] # <<>>)
    IN  [i \in 1..Len(held) |->
           [period |-> period, coin_id |-> held[i],
            rows |-> Slice(FrameOf(held[i], cache[held[i]]), period)]]

RECURSIVE SlicesOfPeriods(_, _, _)
SlicesOfPeriods(universe, cache, periods) ==
    IF periods = <<>> THEN <<>>
    ELSE SlicesOfPeriod(universe, cache, Head(periods))
           \o SlicesOfPeriods(universe, cache, Tail(periods))

\* lines 507-516
Stage2(universe, cache) ==
    SlicesOfPeriods(universe, cache, SortedKeys(DOMAIN universe))

RECURSIVE Concat(_)
Concat(slices) ==
    IF slices = <<>> THEN <<>>
    ELSE Head(slices).rows \o Concat(Tail(slices))

\* the rows of df at the positions in keep, in order
RECURSIVE Pick(_, _, _)
Pick(df, keep, i) ==
    IF i > Len(df) THEN <<>>
    ELSE (IF i \in keep THEN <<df[i]>> ELSE <<>>) \o Pick(df, keep, i + 1)

\* line 526: drop_duplicates(subset=['coin_id', 'date'], keep='last')
DropDuplicatesCoin(df) ==
    Pick(df, {i \in 1..Len(df) :
                \A j \in (i + 1)..Len(df) :
                    ~(df[j].coin_id = df[i].coin_id /\ df[j].date = df[i].date)}, 1)

\* line 529
WithCanonicalId(df) ==
    [i \in 1..Len(df) |->
       [coin_id |-> df[i].coin_id, date |-> df[i].date, n |-> df[i].n,
        canonical_id |-> CanonicalId(df[i].coin_id)]]

\* A second deduplication that drops nothing.
KeepAllRows(df) == df

\* A second deduplication with keep='first'.
DropDuplicatesCanonicalKeepFirst(df) ==
    Pick(df, {i \in 1..Len(df) :
                \A j \in 1..(i - 1) :
                    ~(df[j].canonical_id = df[i].canonical_id
                      /\ df[j].date = df[i].date)}, 1)

\* line 530: drop_duplicates(subset=['canonical_id', 'date'], keep='last')
DropDuplicatesCanonical(df) ==
    Pick(df, {i \in 1..Len(df) :
                \A j \in (i + 1)..Len(df) :
                    ~(df[j].canonical_id = df[i].canonical_id
                      /\ df[j].date = df[i].date)}, 1)

RowBefore(a, b) ==
    \/ IdRank(a.canonical_id) < IdRank(b.canonical_id)
    \/ (a.canonical_id = b.canonical_id /\ a.date < b.date)

\* lines 531-532: sort_values(by=['canonical_id', 'date'])
RECURSIVE SortRows(_)
SortRows(df) ==
    IF df = <<>> THEN <<>>
    ELSE LET i == CHOOSE i \in 1..Len(df) :
                     /\ \A j \in 1..Len(df) : ~RowBefore(df[j], df[i])
                     /\ \A j \in 1..(i - 1) : RowBefore(df[i], df[j])
         IN  <<df[i]>> \o SortRows(Pick(df, (1..Len(df)) \ {i}, 1))

\* lines 522-532
FinalFrame(slices) ==
    LET concat == Concat(slices)
        started == SelectSeq(concat, LAMBDA r : r.date >= START_DATE)
    IN  SortRows(DropDuplicatesCanonical(WithCanonicalId(DropDuplicatesCoin(started))))

NotSaved == [written |-> FALSE, rows |-> <<>>]

NoEarlier == [fetched |-> FALSE, returned |-> None]

\* a call of fetch_and_cache_coin_history that has not begun: its locals,
\* the outcomes of the cache manager's file and bucket operations, and
\* whether it began while another call was under way
NoWorker ==
    [pc |-> "start", exists |-> "none", download |-> "none",
     cached_df |-> None, cg_raw |-> NoneRaw, final_coin_df |-> EmptyDF,
     chain_tvl_df |-> EmptyDF, protocol_data_df |-> EmptyDF,
     lunarcrush_df |-> EmptyDF, write |-> "none", upload |-> "none",
     returned |-> None, beside |-> FALSE]

NoWorkers == [c \in FetchCoins |-> NoWorker]

NoTiers == <<[k \in AllKeys |-> NoFile], [k \in AllKeys |-> NoFile]>>

RunIdle ==
    /\ run = 1
    /\ earlier = NoEarlier
    /\ workers = NoWorkers
    /\ tiers_at_start = NoTiers

AssembleIdle ==
    /\ full_history_cache = NoHistories
    /\ coin_i = 1
    /\ all_period_data = <<>>
    /\ master_df = <<>>
    /\ output_file = NotSaved

RetryIdle ==
    /\ cg = CgIdle
    /\ ncalls = 0

NoMaps == [ticker |-> "", chain |-> FALSE, protocol |-> "absent"]

FetchIdle ==
    /\ cacher = "gcs"
    /\ maps = NoMaps
    /\ coin_id = "bitcoin"
    /\ pc = "idle"
    /\ cached_df = None
    /\ cg_raw = NoneRaw
    /\ final_coin_df = EmptyDF
    /\ chain_tvl_df = EmptyDF
    /\ protocol_data_df = EmptyDF
    /\ lunarcrush_df = EmptyDF
    /\ calls = NoCalls
    /\ cache_sets = 0
    /\ returned = None

MaxCacheOps == 3

NoCall == [op |-> "none", key |-> K_PARQUET, data |-> None, result |-> None,
           raised |-> FALSE, exists_calls |-> 0, downloads |-> 0,
           uploads |-> 0, warned |-> FALSE, exists |-> "none"]

\* prev is the payload of the set(K, .) before the last one if that set
\* wrote its local file, None otherwise
NoSet == [called |-> FALSE, data |-> None, write |-> "ok", upload |-> "ok",
          prev |-> None]

\* The bucket may already hold blobs written by an earlier run or machine.
RemoteAtStart ==
    { [k \in AllKeys |-> NoFile],
      [k \in AllKeys |-> IF k = K_JSON THEN Serialize(MAP_STR) ELSE Serialize(DF1)] }

CacheLogIdle ==
    /\ last = NoCall
    /\ last_set = [k \in Keys |-> NoSet]
    /\ promoted = {}
    /\ nops = 0

InitCache ==
    /\ local = [k \in AllKeys |-> NoFile]
    /\ remote \in RemoteAtStart
    /\ CacheLogIdle
    /\ RetryIdle
    /\ FetchIdle
    /\ UniverseIdle
    /\ AssembleIdle
    /\ RunIdle

Get ==
    /\ nops < MaxCacheOps
    /\ \E key \in Keys, ex \in ExistsOutcomes, dl \in DownloadOutcomes :
         LET r == CacheGet(key, local, remote, ex, dl)
         IN  /\ local' = r.local
             /\ last' = [op |-> "get", key |-> key, data |-> None,
                         result |-> r.result, raised |-> r.raised,
                         exists_calls |-> r.exists_calls,
                         downloads |-> r.downloads, uploads |-> 0,
                         warned |-> FALSE,
                         exists |-> IF r.exists_calls = 1 THEN ex ELSE "none"]
             /\ promoted' = IF r.downloads = 1 /\ ~r.raised
                            THEN promoted \cup {key} ELSE promoted
    /\ nops' = nops + 1
    /\ UNCHANGED <<remote, last_set>>
    /\ UNCHANGED <<retry_vars, fetch_vars, calls, universe_vars>>
    /\ UNCHANGED <<assemble_vars, run_vars>>

Set ==
    /\ nops < MaxCacheOps
    /\ \E key \in Keys, data \in Payloads,
          wr \in WriteOutcomes, up \in UploadOutcomes :
         LET r == CacheSet(key, data, local, remote, wr, up)
         IN  /\ local' = r.local
             /\ remote' = r.remote
             /\ last' = [op |-> "set", key |-> key, data |-> data,
                         result |-> None, raised |-> r.raised,
                         exists_calls |-> 0, downloads |-> 0,
                         uploads |-> r.uploads, warned |-> r.warned,
                         exists |-> "none"]
             /\ last_set' = [last_set EXCEPT ![key] =
                               [called |-> TRUE, data |-> data, write |-> wr,
                                upload |-> IF wr = "ok" THEN up ELSE "none",
                                prev |-> IF /\ last_set[key].called
                                            /\ last_set[key].write = "ok"
                                         THEN last_set[key].data ELSE None]]
    /\ nops' = nops + 1
    /\ UNCHANGED promoted
    /\ UNCHANGED <<retry_vars, fetch_vars, calls, universe_vars>>
    /\ UNCHANGED <<assemble_vars, run_vars>>

NextCache == Get \/ Set

SpecCache == InitCache /\ [][NextCache]_vars

(***************************************************************************)
(* Claims about the cache                                                  *)
(***************************************************************************)

\* C1 (as claimed): a get(K) issued after a set(K, P) whose local write and
\* upload both succeeded returns data equal to P, for every key and payload.
CacheRoundTrip ==
    (/\ last.op = "get"
     /\ last_set[last.key].called
     /\ last_set[last.key].write = "ok"
     /\ last_set[last.key].upload = "ok")
    => (~last.raised /\ last.result = last_set[last.key].data)

\* C4 (as claimed): when the upload inside set(K, P) raises, set returns
\* normally and the local tier holds P under K, and a later get(K) returns P
\* without any call to the remote tier.
LocalDurabilityUnderRemoteFailure ==
    /\ (/\ last.op = "set"
        /\ last_set[last.key].write = "ok"
        /\ last_set[last.key].upload = "fail")
       => (~last.raised /\ local[last.key] = Serialize(last.data))
    /\ (/\ last.op = "get"
        /\ last_set[last.key].called
        /\ last_set[last.key].write = "ok"
        /\ last_set[last.key].upload = "fail")
       => (/\ ~last.raised
           /\ last.result = last_set[last.key].data
           /\ last.exists_calls = 0
           /\ last.downloads = 0)

\* C9: a get(K) that misses the local tier, hits the remote tier and returns
\* has downloaded the blob into the local tier (exactly one download) and
\* returns what is loaded from that file; and every get(K) after such a
\* promotion is served from the local file with no blob.exists() call and
\* no download.
TierPromotion ==
    [][(nops' = nops + 1 /\ last'.op = "get") =>
         LET k == last'.key
         IN  /\ (local[k] = NoFile /\ remote[k] # NoFile /\ ~last'.raised)
                   => (/\ local'[k] = remote[k]
                       /\ last'.downloads = 1
                       /\ last'.result = LoadFromLocal(k, local'[k])
                       /\ k \in promoted')
             /\ (k \in promoted)
                   => (/\ local[k] # NoFile
                       /\ last'.exists_calls = 0
                       /\ last'.downloads = 0
                       /\ ~last'.raised
                       /\ local' = local
                       /\ last'.result = LoadFromLocal(k, local[k]))]_vars

\* C9 witness: a get of an already promoted key, served without a download.
TierPromotionWitness ==
    /\ last.op = "get"
    /\ last.key \in promoted
    /\ last.downloads = 0
    /\ last.exists_calls = 0
    /\ last.result = DF1

(***************************************************************************)
(* get_cg_market_data of main_pipeline.py, one loop iteration per step     *)
(***************************************************************************)
CgAttemptMain ==
    /\ cg.impl = "main_pipeline"
    /\ cg.status = "running"
    /\ \E chart \in ChartOutcomes, ohlc \in OhlcOutcomes :
         /\ cg' = CgMainStep(cg, chart, ohlc)
         /\ calls' = [calls EXCEPT
                        !["cg_chart"] = @ + 1,
                        !["cg_ohlc"] = IF chart \in Exceptions THEN @ ELSE @ + 1]
    /\ UNCHANGED <<cache_vars, ncalls, fetch_vars, universe_vars>>
    /\ UNCHANGED <<assemble_vars, run_vars>>

(***************************************************************************)
(* fetch_and_cache_coin_history(coin_id, ...)                              *)
(***************************************************************************)
MapChoices == [ticker : {"", "BTC"}, chain : BOOLEAN,
               protocol : {"absent", "empty_slug", "slug"}]

\* an entry an earlier run cached for the coin
CachedHistory == MarketDF(RawDict("data", "data"))

\* the tiers before the call: nothing, a local entry, a GCS entry only, or a
\* local file an interrupted write left behind
TiersAtStart(key) ==
    { <<[k \in AllKeys |-> NoFile], [k \in AllKeys |-> NoFile]>>,
      <<[k \in AllKeys |-> IF k = key THEN Serialize(CachedHistory) ELSE NoFile],
        [k \in AllKeys |-> IF k = key THEN Serialize(CachedHistory) ELSE NoFile]>>,
      <<[k \in AllKeys |-> NoFile],
        [k \in AllKeys |-> IF k = key THEN Serialize(CachedHistory) ELSE NoFile]>>,
      <<[k \in AllKeys |-> IF k = key THEN PartialFile ELSE NoFile],
        [k \in AllKeys |-> NoFile]>> }

InitFetch ==
    /\ coin_id \in FetchCoins
    /\ cacher \in {"gcs", "dummy"}
    /\ maps \in MapChoices
    /\ \E tiers \in TiersAtStart(HistoryKey(coin_id)) :
         /\ local = tiers[1]
         /\ remote = tiers[2]
    /\ CacheLogIdle
    /\ RetryIdle
    /\ pc = "start"
    /\ cached_df = None
    /\ cg_raw = NoneRaw
    /\ final_coin_df = EmptyDF
    /\ chain_tvl_df = EmptyDF
    /\ protocol_data_df = EmptyDF
    /\ lunarcrush_df = EmptyDF
    /\ calls = NoCalls
    /\ cache_sets = 0
    /\ returned = None
    /\ UniverseIdle
    /\ AssembleIdle
    /\ RunIdle

\* cacher.get(cache_key): GCSCachingManager.get, or DummyCachingManager.get
\* which always returns None
CacherGet(key, ex, dl) ==
    IF cacher = "gcs"
    THEN CacheGet(key, local, remote, ex, dl)
    ELSE [result |-> None, raised |-> FALSE, local |-> local,
          exists_calls |-> 0, downloads |-> 0]

\* A lookup whose result is ignored: the call always goes on to the live APIs.
FetchBeginIgnoringCache ==
    /\ pc = "start"
    /\ \E ex \in ExistsOutcomes, dl \in DownloadOutcomes :
         LET r == CacherGet(HistoryKey(coin_id), ex, dl)
         IN  /\ local' = r.local
             /\ cached_df' = r.result
             /\ IF r.raised
                THEN /\ pc' = "raised"
                     /\ UNCHANGED cg
                ELSE /\ pc' = "cg"
                     /\ cg' = CgStart("main_pipeline")
             /\ UNCHANGED returned
    /\ UNCHANGED <<remote, last, last_set, promoted, nops, ncalls, cacher, maps,
                   coin_id, cg_raw, final_coin_df, chain_tvl_df,
                   protocol_data_df, lunarcrush_df, calls, cache_sets>>
    /\ UNCHANGED universe_vars
    /\ UNCHANGED <<assemble_vars, run_vars>>

\* lines 388-395: the cache lookup and the short-circuit on a hit
FetchBegin ==
    /\ pc = "start"
    /\ \E ex \in ExistsOutcomes, dl \in DownloadOutcomes :
         LET r == CacherGet(HistoryKey(coin_id), ex, dl)
         IN  /\ local' = r.local
             /\ cached_df' = r.result
             /\ IF r.raised
                THEN /\ pc' = "raised"
                     /\ UNCHANGED <<cg, returned>>
                ELSE IF r.result # None
                THEN /\ pc' = "returned"
                     /\ returned' = r.result
                     /\ UNCHANGED cg
                ELSE /\ pc' = "cg"
                     /\ cg' = CgStart("main_pipeline")
                     /\ UNCHANGED returned
    /\ UNCHANGED <<remote, last, last_set, promoted, nops, ncalls, cacher, maps,
                   coin_id, cg_raw, final_coin_df, chain_tvl_df,
                   protocol_data_df, lunarcrush_df, calls, cache_sets>>
    /\ UNCHANGED universe_vars
    /\ UNCHANGED <<assemble_vars, run_vars>>

\* Step 1 without the early return on an empty primary frame.
ProcessMarketNoEarlyReturn ==
    /\ pc = "cg"
    /\ cg.status = "returned"
    /\ cg_raw' = cg.result
    /\ final_coin_df' = MarketDF(cg.result)
    /\ pc' = "chain"
    /\ UNCHANGED <<cache_vars, retry_vars, cacher, maps, coin_id, cached_df,
                   chain_tvl_df, protocol_data_df, lunarcrush_df, calls,
                   cache_sets, returned>>
    /\ UNCHANGED universe_vars
    /\ UNCHANGED <<assemble_vars, run_vars>>

\* lines 397-400: Step 1, after get_cg_market_data has returned
ProcessMarket ==
    /\ pc = "cg"
    /\ cg.status = "returned"
    /\ cg_raw' = cg.result
    /\ final_coin_df' = MarketDF(cg.result)
    /\ IF IsEmpty(MarketDF(cg.result))
       THEN /\ pc' = "returned"
            /\ returned' = EmptyDF
       ELSE /\ pc' = "chain"
            /\ UNCHANGED returned
    /\ UNCHANGED <<cache_vars, retry_vars, cacher, maps, coin_id, cached_df,
                   chain_tvl_df, protocol_data_df, lunarcrush_df, calls,
                   cache_sets>>
    /\ UNCHANGED universe_vars
    /\ UNCHANGED <<assemble_vars, run_vars>>

\* A chain TVL step where a failed request ends the call with an empty
\* result.
ChainTvlFailureAborts ==
    /\ pc = "chain"
    /\ IF maps.chain
       THEN \E out \in ChainOutcomes :
              /\ chain_tvl_df' = ChainDF(out)
              /\ calls' = [calls EXCEPT !["llama_chain"] = @ + 1]
              /\ IF out = "data"
                 THEN pc' = "protocol" /\ UNCHANGED returned
                 ELSE pc' = "returned" /\ returned' = EmptyDF
       ELSE /\ chain_tvl_df' = EmptyDF
            /\ pc' = "protocol"
            /\ UNCHANGED <<calls, returned>>
    /\ UNCHANGED <<cache_vars, retry_vars, cacher, maps, coin_id, cached_df,
                   cg_raw, final_coin_df, protocol_data_df, lunarcrush_df,
                   cache_sets>>
    /\ UNCHANGED <<universe_vars, assemble_vars, run_vars>>

\* lines 402-410: chain TVL
ChainTvl ==
    /\ pc = "chain"
    /\ IF maps.chain
       THEN \E out \in ChainOutcomes :
              /\ chain_tvl_df' = ChainDF(out)
              /\ calls' = [calls EXCEPT !["llama_chain"] = @ + 1]
       ELSE /\ chain_tvl_df' = EmptyDF
            /\ UNCHANGED calls
    /\ pc' = "protocol"
    /\ UNCHANGED <<cache_vars, retry_vars, cacher, maps, coin_id, cached_df,
                   cg_raw, final_coin_df, protocol_data_df, lunarcrush_df,
                   cache_sets, returned>>
    /\ UNCHANGED universe_vars
    /\ UNCHANGED <<assemble_vars, run_vars>>

\* lines 412-417: protocol TVL and DEX volume
ProtocolData ==
    /\ pc = "protocol"
    /\ IF maps.protocol = "slug"
       THEN \E tvl \in ProtocolOutcomes, dex \in ProtocolOutcomes :
              /\ protocol_data_df' = ProtocolDF(tvl, dex)
              /\ calls' = [calls EXCEPT !["llama_protocol"] = @ + 1,
                                        !["llama_dex"] = @ + 1]
       ELSE /\ protocol_data_df' = EmptyDF
            /\ UNCHANGED calls
    /\ pc' = "lunarcrush"
    /\ UNCHANGED <<cache_vars, retry_vars, cacher, maps, coin_id, cached_df,
                   cg_raw, final_coin_df, chain_tvl_df, lunarcrush_df,
                   cache_sets, returned>>
    /\ UNCHANGED universe_vars
    /\ UNCHANGED <<assemble_vars, run_vars>>

\* lines 419-420: LunarCrush
LunarCrush ==
    /\ pc = "lunarcrush"
    /\ IF maps.ticker # ""
       THEN \E out \in LunarOutcomes :
              /\ lunarcrush_df' = LunarDF(out)
              /\ calls' = [calls EXCEPT !["lunarcrush"] = @ + 1]
       ELSE /\ lunarcrush_df' = EmptyDF
            /\ UNCHANGED calls
    /\ pc' = "merge"
    /\ UNCHANGED <<cache_vars, retry_vars, cacher, maps, coin_id, cached_df,
                   cg_raw, final_coin_df, chain_tvl_df, protocol_data_df,
                   cache_sets, returned>>
    /\ UNCHANGED universe_vars
    /\ UNCHANGED <<assemble_vars, run_vars>>

\* Steps 4 and 5 with the cache write left out.
MergeAndCacheWithoutSet ==
    /\ pc = "merge"
    /\ LET merged == MergeAll(final_coin_df, chain_tvl_df, protocol_data_df,
                              lunarcrush_df)
       IN  /\ final_coin_df' = merged
           /\ returned' = merged
    /\ pc' = "returned"
    /\ UNCHANGED <<cache_vars, retry_vars, cacher, maps, coin_id, cached_df,
                   cg_raw, chain_tvl_df, protocol_data_df, lunarcrush_df,
                   calls, cache_sets>>
    /\ UNCHANGED <<universe_vars, assemble_vars, run_vars>>

\* lines 422-438: Steps 4 and 5, and the return
MergeAndCache ==
    /\ pc = "merge"
    /\ LET merged == MergeAll(final_coin_df, chain_tvl_df, protocol_data_df,
                              lunarcrush_df)
       IN  /\ final_coin_df' = merged
           /\ returned' = merged
           /\ IF ~IsEmpty(merged)
              THEN /\ cache_sets' = cache_sets + 1
                   /\ IF cacher = "gcs"
                      THEN \E wr \in WriteOutcomes, up \in UploadOutcomes :
                             LET r == CacheSet(HistoryKey(coin_id), merged,
                                               local, remote, wr, up)
                             IN  /\ local' = r.local
                                 /\ remote' = r.remote
                      ELSE UNCHANGED <<local, remote>>
              ELSE UNCHANGED <<local, remote, cache_sets>>
    /\ pc' = "returned"
    /\ UNCHANGED <<last, last_set, promoted, nops, retry_vars, cacher, maps,
                   coin_id, cached_df, cg_raw, chain_tvl_df, protocol_data_df,
                   lunarcrush_df, calls>>
    /\ UNCHANGED universe_vars
    /\ UNCHANGED <<assemble_vars, run_vars>>

NextFetch ==
    \/ FetchBegin
    \/ CgAttemptMain
    \/ ProcessMarket
    \/ ChainTvl
    \/ ProtocolData
    \/ LunarCrush
    \/ MergeAndCache

SpecFetch == InitFetch /\ [][NextFetch]_vars

SecondarySources == {"llama_chain", "llama_protocol", "llama_dex", "lunarcrush"}

\* C5: when cacher.get returns an entry for the asset's history key, the
\* call has returned exactly that entry, no request was made to any data
\* source and cacher.set was not called.
CacheShortCircuit ==
    cached_df # None
    => (/\ pc = "returned"
        /\ returned = cached_df
        /\ calls = NoCalls
        /\ cache_sets = 0
        /\ cg = CgIdle)

\* C5 witness: a call served from an entry the local tier held.
CacheShortCircuitWitness ==
    /\ pc = "returned"
    /\ cached_df = CachedHistory
    /\ returned = CachedHistory
    /\ local[HistoryKey(coin_id)] = Serialize(CachedHistory)

\* C6: on a cache miss, once the primary market-data fetch has yielded no
\* data (None, or a chart without prices), the call has returned an empty
\* frame, no secondary source was requested and cacher.set was not called.
PrimaryFailureStopsAsset ==
    (/\ pc \notin {"start", "cg", "raised"}
     /\ cached_df = None
     /\ (cg_raw.kind = "none" \/ cg_raw.chart # "data"))
    => (/\ pc = "returned"
        /\ IsEmpty(returned)
        /\ returned = EmptyDF
        /\ \A src \in SecondarySources : calls[src] = 0
        /\ cache_sets = 0)

\* C6 witness: the retry cap was exhausted and the call returned empty.
PrimaryFailureStopsAssetWitness ==
    /\ pc = "returned"
    /\ cached_df = None
    /\ cg_raw = NoneRaw
    /\ Len(cg.log) = max_retries
    /\ returned = EmptyDF
    /\ maps.chain /\ maps.protocol = "slug" /\ maps.ticker # ""

(***************************************************************************)
(* create_universe.py, the main block                                      *)
(***************************************************************************)
InitUniverse ==
    /\ local = [k \in AllKeys |-> NoFile]
    /\ remote = [k \in AllKeys |-> NoFile]
    /\ CacheLogIdle
    /\ RetryIdle
    /\ FetchIdle
    /\ UNIVERSE_SIZE \in 1..MaxUniverseSize
    /\ candidate_ids = <<>>
    /\ cand_i = 1
    /\ all_histories = <<>>
    /\ monthly_avg_mcap = <<>>
    /\ point_in_time_universe = NoUniverse
    /\ universe_file = NotWritten
    /\ AssembleIdle
    /\ RunIdle

\* lines 75-90: the candidate pool; an exception ends the run (SystemExit)
FetchCandidates ==
    /\ pc = "idle"
    /\ candidate_ids = <<>>
    /\ \/ pc' = "fatal" /\ UNCHANGED candidate_ids
       \/ \E pool \in Pools(UCoins) :
            /\ candidate_ids' = pool
            /\ pc' = "candidates"
    /\ UNCHANGED <<cache_vars, retry_vars, cacher, maps, coin_id, cached_df,
                   cg_raw, final_coin_df, chain_tvl_df, protocol_data_df,
                   lunarcrush_df, calls, cache_sets, returned, UNIVERSE_SIZE,
                   cand_i, all_histories, monthly_avg_mcap,
                   point_in_time_universe, universe_file>>
    /\ UNCHANGED <<assemble_vars, run_vars>>

\* lines 94-96: the loop calls get_cg_market_data(coin_id)
CallCgUniverse ==
    /\ pc = "candidates"
    /\ cand_i <= Len(candidate_ids)
    /\ cg' = CgStart("create_universe")
    /\ pc' = "history"
    /\ UNCHANGED <<cache_vars, ncalls, cacher, maps, coin_id, cached_df,
                   cg_raw, final_coin_df, chain_tvl_df, protocol_data_df,
                   lunarcrush_df, calls, cache_sets, returned, universe_vars>>
    /\ UNCHANGED <<assemble_vars, run_vars>>

\* get_cg_market_data of create_universe.py, one loop iteration per step
CgAttemptUniverse ==
    /\ cg.impl = "create_universe"
    /\ cg.status = "running"
    /\ \/ \E e \in Exceptions : cg' = CgUniverseStep(cg, e, {})
       \/ \E caps \in SubsetsUpTo(MarketRows, MaxRows - RowsUsed(all_histories)) :
            cg' = CgUniverseStep(cg, "ok", caps)
    /\ UNCHANGED <<cache_vars, ncalls, fetch_vars, calls, universe_vars>>
    /\ UNCHANGED <<assemble_vars, run_vars>>

\* A loop that gives the run up at the first candidate whose fetch failed.
CollectHistoryOrAbort ==
    /\ pc = "history"
    /\ cg.status = "returned"
    /\ all_histories' =
         IF cg.result.kind # "none"
         THEN Append(all_histories, ProcessCaps(cg.result, candidate_ids[cand_i]))
         ELSE all_histories
    /\ cand_i' = cand_i + 1
    /\ cg' = CgIdle
    /\ pc' = IF cg.result.kind # "none" THEN "candidates" ELSE "fatal"
    /\ UNCHANGED <<cache_vars, ncalls, cacher, maps, coin_id, cached_df,
                   cg_raw, final_coin_df, chain_tvl_df, protocol_data_df,
                   lunarcrush_df, calls, cache_sets, returned, UNIVERSE_SIZE,
                   candidate_ids, monthly_avg_mcap, point_in_time_universe,
                   universe_file>>
    /\ UNCHANGED <<assemble_vars, run_vars>>

\* lines 96-99: keep the frame of a candidate whose fetch returned data
CollectHistory ==
    /\ pc = "history"
    /\ cg.status = "returned"
    /\ all_histories' =
         IF cg.result.kind # "none"
         THEN Append(all_histories, ProcessCaps(cg.result, candidate_ids[cand_i]))
         ELSE all_histories
    /\ cand_i' = cand_i + 1
    /\ cg' = CgIdle
    /\ pc' = "candidates"
    /\ UNCHANGED <<cache_vars, ncalls, cacher, maps, coin_id, cached_df,
                   cg_raw, final_coin_df, chain_tvl_df, protocol_data_df,
                   lunarcrush_df, calls, cache_sets, returned, UNIVERSE_SIZE,
                   candidate_ids, monthly_avg_mcap, point_in_time_universe,
                   universe_file>>
    /\ UNCHANGED <<assemble_vars, run_vars>>

\* lines 101-125: the point-in-time universe
CalculateUniverse ==
    /\ pc = "candidates"
    /\ cand_i > Len(candidate_ids)
    /\ LET u == UniverseOf(all_histories, UNIVERSE_SIZE)
       IN  /\ monthly_avg_mcap' = u.frame
           /\ point_in_time_universe' = u.universe
           /\ pc' = IF u.status = "ok" THEN "calculated" ELSE u.status
    /\ UNCHANGED <<cache_vars, retry_vars, cacher, maps, coin_id, cached_df,
                   cg_raw, final_coin_df, chain_tvl_df, protocol_data_df,
                   lunarcrush_df, calls, cache_sets, returned, UNIVERSE_SIZE,
                   candidate_ids, cand_i, all_histories, universe_file>>
    /\ UNCHANGED <<assemble_vars, run_vars>>

\* lines 127-131: json.dump(point_in_time_universe)
SaveUniverse ==
    /\ pc = "calculated"
    /\ universe_file' = [written |-> TRUE, content |-> point_in_time_universe]
    /\ pc' = "done"
    /\ UNCHANGED <<cache_vars, retry_vars, cacher, maps, coin_id, cached_df,
                   cg_raw, final_coin_df, chain_tvl_df, protocol_data_df,
                   lunarcrush_df, calls, cache_sets, returned, UNIVERSE_SIZE,
                   candidate_ids, cand_i, all_histories, monthly_avg_mcap,
                   point_in_time_universe>>
    /\ UNCHANGED <<assemble_vars, run_vars>>

NextUniverse ==
    \/ FetchCandidates
    \/ CallCgUniverse
    \/ CgAttemptUniverse
    \/ CollectHistory
    \/ CalculateUniverse
    \/ SaveUniverse

SpecUniverse == InitUniverse /\ [][NextUniverse]_vars

(***************************************************************************)
(* Universe claims                                                         *)
(***************************************************************************)
Calculated == pc \in {"calculated", "done"}

\* the frames with every row dated after the end of month p removed
PastOnly(hist, p) ==
    [i \in 1..Len(hist) |->
       [coin_id |-> hist[i].coin_id,
        rows |-> {r \in hist[i].rows : Month(r[1]) <= p}]]

\* the list emitted for month p, <<>> when the month has no key
Snapshot(universe, p) ==
    IF MonthKey(p) \in DOMAIN universe THEN universe[MonthKey(p)] ELSE <<>>

\* C2: for every month P the list emitted for P equals the list the builder
\* emits for P from the same input with every market-cap row dated after
\* the end of P removed; two inputs that differ only in rows after P have
\* the same reduced input, hence the same list for P.
NoLookAhead ==
    Calculated =>
        \A p \in Months :
            Snapshot(point_in_time_universe, p)
              = Snapshot(UniverseOf(PastOnly(all_histories, p), UNIVERSE_SIZE).universe, p)

NoLookAheadWitness ==
    /\ pc = "done"
    /\ UNIVERSE_SIZE = 1
    /\ Len(all_histories) = 2
    /\ PastOnly(all_histories, 1) # all_histories
    /\ MonthKey(1) \in DOMAIN point_in_time_universe
    /\ MonthKey(2) \in DOMAIN point_in_time_universe
    /\ point_in_time_universe[MonthKey(1)] # point_in_time_universe[MonthKey(2)]
    /\ universe_file.content = point_in_time_universe

CandidatePosition(coin) ==
    CHOOSE i \in 1..Len(candidate_ids) : candidate_ids[i] = coin

Tied(i, j) ==
    /\ i # j
    /\ monthly_avg_mcap[i].month = monthly_avg_mcap[j].month
    /\ MeanEqual(monthly_avg_mcap[i], monthly_avg_mcap[j])

Selected(i) ==
    LET key == MonthKey(monthly_avg_mcap[i].month)
    IN  /\ key \in DOMAIN point_in_time_universe
        /\ \E k \in 1..Len(point_in_time_universe[key]) :
              point_in_time_universe[key][k] = monthly_avg_mcap[i].coin_id

\* C8 as stated: of two assets with equal average market cap in a month,
\* the one earlier in candidate order has the better rank, and is selected
\* whenever the other is.
TieBreakByInputOrder ==
    Calculated =>
        \A i, j \in 1..Len(monthly_avg_mcap) :
            (/\ Tied(i, j)
             /\ CandidatePosition(monthly_avg_mcap[i].coin_id)
                  < CandidatePosition(monthly_avg_mcap[j].coin_id))
            => (/\ monthly_avg_mcap[i].rank < monthly_avg_mcap[j].rank
                /\ Selected(j) => Selected(i))

\* C8 amended: of two assets with equal average market cap in a month, the
\* one whose id sorts first has the better rank, and is selected whenever
\* the other is, whatever the candidate order.
TieBreakByCoinId ==
    Calculated =>
        \A i, j \in 1..Len(monthly_avg_mcap) :
            (/\ Tied(i, j)
             /\ monthly_avg_mcap[i].coin_id < monthly_avg_mcap[j].coin_id)
            => (/\ monthly_avg_mcap[i].rank < monthly_avg_mcap[j].rank
                /\ Selected(j) => Selected(i))

TieBreakByCoinIdWitness ==
    /\ pc = "done"
    /\ candidate_ids = <<2, 1>>
    /\ UNIVERSE_SIZE = 1
    /\ \E i, j \in 1..Len(monthly_avg_mcap) :
          /\ Tied(i, j)
          /\ monthly_avg_mcap[i].month = 1
          /\ monthly_avg_mcap[i].coin_id = 1
          /\ monthly_avg_mcap[j].coin_id = 2
    /\ point_in_time_universe[MonthKey(1)] = <<1>>

(***************************************************************************)
(* get_cg_market_data, both implementations, called on their own           *)
(***************************************************************************)
MaxCgCalls == 2

InitRetry ==
    /\ local = [k \in AllKeys |-> NoFile]
    /\ remote = [k \in AllKeys |-> NoFile]
    /\ CacheLogIdle
    /\ RetryIdle
    /\ FetchIdle
    /\ UniverseIdle
    /\ AssembleIdle
    /\ RunIdle

\* main_pipeline.py line 398: cg_raw = get_cg_market_data(coin_id, days='max')
CallMain ==
    /\ cg.status # "running"
    /\ ncalls < MaxCgCalls
    /\ cg' = CgStart("main_pipeline")
    /\ ncalls' = ncalls + 1
    /\ calls' = NoCalls
    /\ UNCHANGED <<cache_vars, fetch_vars, universe_vars>>
    /\ UNCHANGED <<assemble_vars, run_vars>>

\* create_universe.py line 96: raw_data = get_cg_market_data(coin_id)
CallUniverse ==
    /\ cg.status # "running"
    /\ ncalls < MaxCgCalls
    /\ cg' = CgStart("create_universe")
    /\ ncalls' = ncalls + 1
    /\ calls' = NoCalls
    /\ UNCHANGED <<cache_vars, fetch_vars, universe_vars>>
    /\ UNCHANGED <<assemble_vars, run_vars>>

NextRetry ==
    \/ CallMain
    \/ CgAttemptMain
    \/ CallUniverse
    \/ CgAttemptUniverse

SpecRetry == InitRetry /\ [][NextRetry]_vars

AttemptCap ==
    IF cg.impl = "create_universe" THEN max_retries_universe ELSE max_retries

LastAttempt == cg.log[Len(cg.log)]

\* the part of the retry policy that does not depend on what a
\* non-transient failure returns
RetryDiscipline ==
    /\ Len(cg.log) <= AttemptCap
    /\ \A i \in 1..(Len(cg.log) - 1) : cg.log[i].exc = "429"
    /\ cg.status = "running" => \A i \in 1..Len(cg.log) : cg.log[i].exc = "429"
    /\ cg.status = "running" => Len(cg.log) < AttemptCap
    /\ ~cg.raised
    /\ (cg.status = "returned" /\ Len(cg.log) = AttemptCap /\ LastAttempt.exc = "429")
         => cg.result = NoneRaw

NonTransientEnd ==
    cg.status = "returned" /\ Len(cg.log) > 0 /\ LastAttempt.exc = "other"

ChartObtained == \E i \in 1..Len(cg.log) : cg.log[i].call = "ohlc"

\* C7 as stated: attempts follow only 429 failures, never exceed the cap,
\* exhaustion returns absent without raising, and a non-transient failure
\* ends the fetch with an absent result.
RetryPolicyAbsentOnFailure ==
    /\ RetryDiscipline
    /\ NonTransientEnd => cg.result = NoneRaw

\* C7 amended: as above, except that in main_pipeline a non-transient
\* failure met after the market chart was obtained in this call returns the
\* chart-only partial result; otherwise the result is absent.
RetryPolicy ==
    /\ RetryDiscipline
    /\ NonTransientEnd =>
         IF cg.impl = "main_pipeline" /\ ChartObtained
         THEN /\ cg.result.kind = "raw"
              /\ cg.result.chart \in {"data", "no_prices"}
              /\ cg.result.ohlc = "absent"
         ELSE cg.result = NoneRaw

RetryPolicyWitness ==
    /\ cg.impl = "main_pipeline"
    /\ cg.status = "returned"
    /\ Len(cg.log) = 2
    /\ cg.log[1] = [call |-> "chart", exc |-> "429"]
    /\ cg.log[2] = [call |-> "ohlc", exc |-> "other"]
    /\ cg.result = RawDict("data", "absent")

(***************************************************************************)
(* main_pipeline.py: STAGE 1, STAGE 2 and the final combination            *)
(***************************************************************************)
InitAssemble ==
    /\ local = [k \in AllKeys |-> NoFile]
    /\ remote = [k \in AllKeys |-> NoFile]
    /\ CacheLogIdle
    /\ RetryIdle
    /\ FetchIdle
    /\ UNIVERSE_SIZE = 1
    /\ candidate_ids = <<>>
    /\ cand_i = 1
    /\ all_histories = <<>>
    /\ monthly_avg_mcap = <<>>
    /\ point_in_time_universe \in Universes
    /\ universe_file = NotWritten
    /\ AssembleIdle
    /\ RunIdle

\* lines 489-502: one iteration of STAGE 1; the history is whatever
\* fetch_and_cache_coin_history returns, kept only if not empty
FetchHistory ==
    /\ pc = "idle"
    /\ coin_i <= Len(AllUniqueCoins(point_in_time_universe))
    /\ \E coin_df \in SeqsUpTo(UDates, MaxRows - HistoryRows(full_history_cache, ACoins)) :
         full_history_cache' =
            [full_history_cache EXCEPT
               ![AllUniqueCoins(point_in_time_universe)[coin_i]] = coin_df]
    /\ coin_i' = coin_i + 1
    /\ UNCHANGED <<cache_vars, retry_vars, fetch_vars, calls, universe_vars,
                   all_period_data, master_df, output_file>>
    /\ UNCHANGED run_vars

\* lines 507-516: STAGE 2
AssemblePeriods ==
    /\ pc = "idle"
    /\ coin_i > Len(AllUniqueCoins(point_in_time_universe))
    /\ all_period_data' = Stage2(point_in_time_universe, full_history_cache)
    /\ pc' = "stage2"
    /\ UNCHANGED <<cache_vars, retry_vars, cacher, maps, coin_id, cached_df,
                   cg_raw, final_coin_df, chain_tvl_df, protocol_data_df,
                   lunarcrush_df, calls, cache_sets, returned, universe_vars,
                   full_history_cache, coin_i, master_df, output_file>>
    /\ UNCHANGED run_vars

\* lines 521-542: combine, clean and save, or report failure
CombineAndSave ==
    /\ pc = "stage2"
    /\ IF all_period_data # <<>>
       THEN /\ master_df' = FinalFrame(all_period_data)
            /\ output_file' = [written |-> TRUE, rows |-> master_df']
            /\ pc' = "saved"
       ELSE /\ pc' = "failed"
            /\ UNCHANGED <<master_df, output_file>>
    /\ UNCHANGED <<cache_vars, retry_vars, cacher, maps, coin_id, cached_df,
                   cg_raw, final_coin_df, chain_tvl_df, protocol_data_df,
                   lunarcrush_df, calls, cache_sets, returned, universe_vars,
                   full_history_cache, coin_i, all_period_data>>
    /\ UNCHANGED run_vars

NextAssemble ==
    \/ FetchHistory
    \/ AssemblePeriods
    \/ CombineAndSave

SpecAssemble == InitAssemble /\ [][NextAssemble]_vars

\* C3: the final assembled dataset, in memory and as written, holds no two
\* rows with the same (canonical_id, date).
UniqueCanonicalDate ==
    /\ \A i, j \in 1..Len(master_df) :
          (master_df[i].canonical_id = master_df[j].canonical_id
           /\ master_df[i].date = master_df[j].date) => i = j
    /\ output_file.rows = master_df

UniqueCanonicalDateWitness ==
    /\ pc = "saved"
    /\ Len(Concat(all_period_data)) = 3
    /\ \E i, j \in 1..Len(all_period_data) :
          /\ all_period_data[i].coin_id = "bitcoin"
          /\ all_period_data[j].coin_id = "wrapped-bitcoin"
          /\ \E a \in 1..Len(all_period_data[i].rows),
                b \in 1..Len(all_period_data[j].rows) :
                /\ all_period_data[i].rows[a].date = all_period_data[j].rows[b].date
                /\ all_period_data[i].rows[a].date >= START_DATE
    /\ Len(master_df) = 1
    /\ output_file.written

\* the latest period date whose list holds the coin, 0 if none does
LatestPeriodListing(coin) ==
    LET listing == {k \in DOMAIN point_in_time_universe :
                      \E i \in 1..Len(point_in_time_universe[k]) :
                         point_in_time_universe[k][i] = coin}
    IN  IF listing = {} THEN 0
        ELSE CHOOSE k \in listing : \A o \in listing : o <= k

\* C10: every row a (period, asset) pair contributes has a date no later
\* than the period date, and every row of a raw asset in the final dataset
\* has a date no later than the latest period date whose list holds the
\* asset.
PointInTimeSlicing ==
    /\ \A s \in 1..Len(all_period_data) :
          /\ all_period_data[s].coin_id
               \in {point_in_time_universe[all_period_data[s].period][i] :
                      i \in 1..Len(point_in_time_universe[all_period_data[s].period])}
          /\ \A r \in 1..Len(all_period_data[s].rows) :
                /\ all_period_data[s].rows[r].coin_id = all_period_data[s].coin_id
                /\ all_period_data[s].rows[r].date <= all_period_data[s].period
    /\ \A i \in 1..Len(master_df) :
          master_df[i].date <= LatestPeriodListing(master_df[i].coin_id)

PointInTimeSlicingWitness ==
    /\ pc = "saved"
    /\ DOMAIN point_in_time_universe = {MonthKey(1)}
    /\ \E i \in 1..Len(full_history_cache["bitcoin"]) :
          full_history_cache["bitcoin"][i] > MonthKey(1)
    /\ Len(all_period_data) = 1
    /\ all_period_data[1].coin_id = "bitcoin"
    /\ Len(all_period_data[1].rows) = 1
    /\ Len(master_df) = 1
    /\ master_df[1].date = MonthKey(1)

\* C11: no row of the final output has a key of canonical_map as its
\* canonical_id, every row fetched under such a key carries the mapped id,
\* and every (key, date) that reached the combination is present in the
\* output under the mapped id.
Canonicalization ==
    /\ \A i \in 1..Len(output_file.rows) :
          /\ output_file.rows[i].canonical_id \notin CanonicalKeys
          /\ output_file.rows[i].coin_id = "wrapped-bitcoin"
               => output_file.rows[i].canonical_id = "bitcoin"
          /\ output_file.rows[i].coin_id \notin CanonicalKeys
               => output_file.rows[i].canonical_id = output_file.rows[i].coin_id
    /\ pc = "saved" =>
          \A s \in 1..Len(all_period_data) :
             \A r \in 1..Len(all_period_data[s].rows) :
                (/\ all_period_data[s].rows[r].coin_id = "wrapped-bitcoin"
                 /\ all_period_data[s].rows[r].date >= START_DATE)
                => \E i \in 1..Len(output_file.rows) :
                      /\ output_file.rows[i].canonical_id = "bitcoin"
                      /\ output_file.rows[i].date = all_period_data[s].rows[r].date

CanonicalizationWitness ==
    /\ pc = "saved"
    /\ output_file.written
    /\ \E i \in 1..Len(output_file.rows) :
          /\ output_file.rows[i].coin_id = "wrapped-bitcoin"
          /\ output_file.rows[i].canonical_id = "bitcoin"

\* the non-null market caps the collected frames hold for a coin in a month
CapsIn(coin, m) ==
    UNION {{r \in all_histories[i].rows :
              /\ Month(r[1]) = m
              /\ r[1] >= UNIVERSE_START_DATE
              /\ r[2] # NaN}
           : i \in {j \in 1..Len(all_histories) : all_histories[j].coin_id = coin}}

AssetsWithCap(m) == {c \in UCoins : CapsIn(c, m) # {}}

RECURSIVE SumOfCaps(_)
SumOfCaps(R) ==
    IF R = {} THEN 0
    ELSE LET r == CHOOSE r \in R : TRUE
         IN  r[2] + SumOfCaps(R \ {r})

\* mean of a >= mean of b, for non-empty sets of rows
MeanAtLeast(a, b) ==
    SumOfCaps(a) * Cardinality(b) >= SumOfCaps(b) * Cardinality(a)

ListedIn(universe, key) == {universe[key][i] : i \in 1..Len(universe[key])}

Smaller(a, b) == IF a <= b THEN a ELSE b

\* the scenario of the specification: assets A, B, C are 1, 2, 3 and each
\* month's average is given by one row on the month's first day
ScenarioHistories ==
    << [coin_id |-> 1, rows |-> {<<MonthKey(1), 100>>, <<MonthKey(2), 110>>}],
       [coin_id |-> 2, rows |-> {<<MonthKey(1), 90>>, <<MonthKey(2), 70>>}],
       [coin_id |-> 3, rows |-> {<<MonthKey(1), 80>>, <<MonthKey(2), 95>>}] >>

\* what the builder computes for the scenario with N = 2
ScenarioUniverse == UniverseOf(ScenarioHistories, 2).universe

\* C12: for every month with data the snapshot is keyed by the month's
\* first day and lists min(N, assets with a market cap that month) distinct
\* assets, each with a monthly mean >= that of every asset left out; months
\* without data have no key; and the scenario N=2, month 1 {A:100, B:90,
\* C:80}, month 2 {A:110, C:95, B:70} yields [A,B] and [A,C].
TopNSelection ==
    /\ Calculated =>
          \A m \in Months :
             IF AssetsWithCap(m) = {}
             THEN MonthKey(m) \notin DOMAIN point_in_time_universe
             ELSE /\ MonthKey(m) \in DOMAIN point_in_time_universe
                  /\ Month(MonthKey(m)) = m
                  /\ Month(MonthKey(m) - 1) = m - 1
                  /\ Len(point_in_time_universe[MonthKey(m)])
                       = Smaller(UNIVERSE_SIZE, Cardinality(AssetsWithCap(m)))
                  /\ Cardinality(ListedIn(point_in_time_universe, MonthKey(m)))
                       = Len(point_in_time_universe[MonthKey(m)])
                  /\ ListedIn(point_in_time_universe, MonthKey(m)) \subseteq AssetsWithCap(m)
                  /\ \A inc \in ListedIn(point_in_time_universe, MonthKey(m)) :
                        \A exc \in AssetsWithCap(m)
                                     \ ListedIn(point_in_time_universe, MonthKey(m)) :
                           MeanAtLeast(CapsIn(inc, m), CapsIn(exc, m))
    /\ ScenarioUniverse
         = [key \in {MonthKey(1), MonthKey(2)} |->
              IF key = MonthKey(1) THEN <<1, 2>> ELSE <<1, 3>>]

TopNSelectionWitness ==
    /\ pc = "done"
    /\ UNIVERSE_SIZE = 1
    /\ AssetsWithCap(1) = {1, 2}
    /\ ~MeanAtLeast(CapsIn(1, 1), CapsIn(2, 1))
    /\ point_in_time_universe[MonthKey(1)] = <<2>>
    /\ universe_file.content = point_in_time_universe

(***************************************************************************)
(* The pipeline run twice: fetch_and_cache_coin_history for an asset in a  *)
(* first run, then again in a rerun over the same cache tiers              *)
(***************************************************************************)
\* the first run has finished the asset and was stopped; the pipeline is
\* started again and STAGE 1 (lines 489-498) calls the function for the
\* same asset: its locals are fresh, the cache tiers are what the first run
\* left
RunAgain ==
    /\ run = 1
    /\ pc = "returned"
    /\ run' = 2
    /\ earlier' = [fetched |-> cached_df = None, returned |-> returned]
    /\ pc' = "start"
    /\ cached_df' = None
    /\ cg' = CgIdle
    /\ cg_raw' = NoneRaw
    /\ final_coin_df' = EmptyDF
    /\ chain_tvl_df' = EmptyDF
    /\ protocol_data_df' = EmptyDF
    /\ lunarcrush_df' = EmptyDF
    /\ calls' = NoCalls
    /\ cache_sets' = 0
    /\ returned' = None
    /\ UNCHANGED <<cache_vars, ncalls, cacher, maps, coin_id, universe_vars,
                   assemble_vars, workers, tiers_at_start>>

NextResume ==
    \/ NextFetch
    \/ RunAgain

\* the first run starts with nothing cached in either tier
InitResume ==
    /\ InitFetch
    /\ coin_id = "bitcoin"
    /\ local = [k \in AllKeys |-> NoFile]
    /\ remote = [k \in AllKeys |-> NoFile]

SpecResume == InitResume /\ [][NextResume]_vars

\* C13: when the rerun has finished an asset whose history the earlier run
\* fetched with a non-empty result, it has returned that history from the
\* cache and called no data source.
Resumability ==
    (/\ run = 2
     /\ pc = "returned"
     /\ earlier.fetched
     /\ ~IsEmpty(earlier.returned))
    => (/\ cached_df = earlier.returned
        /\ returned = earlier.returned
        /\ calls = NoCalls)

NoRepeats(seq) == \A i, j \in 1..Len(seq) : seq[i] = seq[j] => i = j

\* line 486: whatever universe is loaded, all_unique_coins holds no id twice
StageOneListsHaveNoRepeats ==
    \A u \in Universes : NoRepeats(AllUniqueCoins(u))

\* C14: cacher.set is invoked for the asset's history key exactly once when
\* the lookup missed and the merged result is non-empty, not at all on a
\* hit or an empty result, and never twice; STAGE 1 calls the function once
\* per asset, its list of assets holding no id twice.
OneCacheWritePerAsset ==
    /\ cache_sets <= 1
    /\ pc = "returned" =>
          cache_sets = IF cached_df = None /\ ~IsEmpty(returned) THEN 1 ELSE 0
    /\ pc # "returned" => cache_sets = 0
    /\ StageOneListsHaveNoRepeats

OneCacheWritePerAssetWitness ==
    /\ pc = "returned"
    /\ cacher = "gcs"
    /\ cached_df = None
    /\ ~IsEmpty(returned)
    /\ cache_sets = 1
    /\ local[HistoryKey(coin_id)] = Serialize(returned)
    /\ calls["lunarcrush"] = 1

\* C15 (as claimed): when the local write inside set(K, P) fails, set fails:
\* it raises to its caller instead of returning normally.
LocalWriteFailureFailsSet ==
    (last.op = "set" /\ last_set[last.key].write # "ok") => last.raised

\* the call missed the cache, fetched, and returned a merged history
MergedReturned ==
    pc = "returned" /\ cached_df = None /\ ~IsEmpty(returned)

SecondaryFrames == {chain_tvl_df, protocol_data_df, lunarcrush_df}

EmptyResultFails ==
    /\ pc = "failed" => ~output_file.written
    /\ pc = "saved" => Len(master_df) > 0
    /\ output_file.written => Len(output_file.rows) > 0

\* C18: a get(K) with K in neither tier, the remote tier answering the
\* existence check, returns None without raising, attempts no download and
\* leaves both tiers as they were.
FullCacheMiss ==
    [][(/\ nops' = nops + 1
        /\ last'.op = "get"
        /\ local[last'.key] = NoFile
        /\ remote[last'.key] = NoFile
        /\ last'.exists # "raise")
       => (/\ last'.result = None
           /\ ~last'.raised
           /\ last'.exists_calls = 1
           /\ last'.downloads = 0
           /\ local' = local
           /\ remote' = remote)]_vars

FullCacheMissWitness ==
    /\ last.op = "get"
    /\ last.exists = "answer"
    /\ last.result = None
    /\ ~last.raised
    /\ last.downloads = 0
    /\ local[last.key] = NoFile
    /\ remote[last.key] = NoFile
    /\ \E k \in Keys : local[k] # NoFile

\* C19 (as claimed): after set(K, P1) and then set(K, P2), both written to
\* the local tier, a get(K) returns P2, whatever the two uploads did.
ReplacementOnOverwrite ==
    (/\ last.op = "get"
     /\ last_set[last.key].called
     /\ last_set[last.key].write = "ok"
     /\ last_set[last.key].prev # None)
    => (~last.raised /\ last.result = last_set[last.key].data)

\* the call missed the cache and the primary fetch gave a market chart
PrimarySucceeded ==
    /\ cached_df = None
    /\ pc \notin {"start", "cg", "raised"}
    /\ ~IsEmpty(MarketDF(cg_raw))

\* C20: on a cache miss with a successful primary fetch, whatever each
\* secondary source does (exception, error status, no data, data), the call
\* goes on without raising, and when it has returned the result is
\* non-empty, holds every primary row and value, holds the columns and the
\* values of every secondary frame that has data (on the result's dates),
\* and has been passed to cacher.set exactly once; with the GCS manager and
\* a local write that succeeds the local tier holds it.
SecondarySourcesOptional ==
    PrimarySucceeded =>
        /\ pc \in {"chain", "protocol", "lunarcrush", "merge", "returned"}
        /\ pc = "returned" =>
              /\ ~IsEmpty(returned)
              /\ MarketDF(cg_raw).rows \subseteq returned.rows
              /\ MarketDF(cg_raw).cols \subseteq returned.cols
              /\ MarketDF(cg_raw).cells \subseteq returned.cells
              /\ \A df \in SecondaryFrames :
                    ~IsEmpty(df) =>
                       /\ (df.cols \ IdCols) \subseteq returned.cols
                       /\ \A cell \in df.cells :
                             cell[2] \in returned.rows => cell \in returned.cells
              /\ cache_sets = 1
              /\ cacher = "gcs" =>
                    local[HistoryKey(coin_id)]
                       \in {Serialize(returned), PartialFile, NoFile}

SecondarySourcesOptionalWitness ==
    /\ PrimarySucceeded
    /\ pc = "returned"
    /\ cacher = "gcs"
    /\ calls["llama_chain"] = 1
    /\ IsEmpty(chain_tvl_df)
    /\ calls["llama_protocol"] = 1
    /\ IsEmpty(protocol_data_df)
    /\ calls["lunarcrush"] = 1
    /\ ~IsEmpty(lunarcrush_df)
    /\ LunarCols \subseteq returned.cols
    /\ cache_sets = 1
    /\ local[HistoryKey(coin_id)] = Serialize(returned)

\* C21 (as claimed): a cache call that touches the remote tier (exists or
\* download in get, upload in set) returns normally whatever the remote
\* tier does.
RemoteFailuresContained ==
    (\/ (last.op = "get" /\ last.exists_calls = 1)
     \/ (last.op = "set" /\ last.uploads = 1))
    => ~last.raised

\* the columns of a merged history when every source returned data
FullSchema ==
    MergeAll(MarketDF(RawDict("data", "data")), ChainDF("data"),
             ProtocolDF("data", "data"), LunarDF("data")).cols

\* C22 (as claimed): the merged history of an asset whose primary fetch
\* succeeded has the full column set, whichever secondary sources (and
\* whether the OHLC request) returned data.
StableMergedSchema ==
    MergedReturned => returned.cols = FullSchema

\* the candidates whose fetch has been kept, in the order they were kept
HistoryIds == [i \in 1..Len(all_histories) |-> all_histories[i].coin_id]

\* the candidates the loop has gone through
Processed == SubSeq(candidate_ids, 1, cand_i - 1)

\* s is t with some elements left out
IsSubsequence(s, t) ==
    \E keep \in SUBSET (1..Len(t)) : s = Pick(t, keep, 1)

\* the run ended in SystemExit or in an uncaught exception
Aborted == pc \in {"fatal", "crashed"}

\* C23: a candidate whose fetch returned None is left out and the loop goes
\* on: the kept frames are those of some of the candidates gone through, in
\* order; the ranking is computed only after every candidate has been gone
\* through and ranks every kept candidate that has a usable row; the
\* artifact is written when the run is done; and the run aborts, writing no
\* artifact, only when no candidate gave a single market-cap row (the pool
\* could not be fetched, was empty, or every fetch failed or was empty).
UniverseBuilderDegrades ==
    /\ IsSubsequence(HistoryIds, Processed)
    /\ (Calculated \/ Aborted) =>
          \/ cand_i = Len(candidate_ids) + 1
          \/ candidate_ids = <<>>
    /\ Calculated =>
          \A r \in MasterRows(all_histories) :
             \E i \in 1..Len(monthly_avg_mcap) :
                /\ monthly_avg_mcap[i].coin_id = r.coin_id
                /\ monthly_avg_mcap[i].month = Month(r.date)
                /\ monthly_avg_mcap[i].rank \in 1..Len(all_histories)
    /\ pc = "done" =>
          /\ universe_file.written
          /\ universe_file.content = UniverseOf(all_histories, UNIVERSE_SIZE).universe
    /\ Aborted =>
          /\ \A i \in 1..Len(all_histories) : all_histories[i].rows = {}
          /\ ~universe_file.written

\* the first candidate's fetch failed, the second one's history was kept
\* and ranked, and the artifact lists it
UniverseBuilderDegradesWitness ==
    /\ pc = "done"
    /\ Len(candidate_ids) = 2
    /\ HistoryIds = <<candidate_ids[2]>>
    /\ universe_file.written
    /\ \E key \in DOMAIN universe_file.content :
          universe_file.content[key] = <<candidate_ids[2]>>

(***************************************************************************)
(* fetch_and_cache_coin_history called for several assets at once, one     *)
(* worker per asset, over one GCSCachingManager.  A step is a cache call,  *)
(* the CoinGecko fetch, or the request to one secondary source.            *)
(***************************************************************************)
\* what get_cg_market_data (main_pipeline.py) can return
CgResults ==
    {NoneRaw} \cup {RawDict(chart, ohlc) : chart \in {"data", "no_prices"},
                                           ohlc \in {"absent", "data", "empty"}}

\* ticker_map, llama_chain_map and llama_protocol_map as they list the assets
WorkerMaps(coin) ==
    IF coin = "bitcoin"
    THEN [ticker |-> "BTC", chain |-> TRUE, protocol |-> "absent"]
    ELSE [ticker |-> "", chain |-> FALSE, protocol |-> "slug"]

\* the tiers before the calls: for each asset nothing, an entry in both
\* tiers, an entry in GCS only, or a local file an interrupted write left
ConcurrentTiers ==
    LET choices == {ch \in [FetchCoins -> UNION {TiersAtStart(HistoryKey(c)) : c \in FetchCoins}] :
                      \A c \in FetchCoins : ch[c] \in TiersAtStart(HistoryKey(c))}
        Of(ch, t) == [k \in AllKeys |->
                        IF \E c \in FetchCoins : k = HistoryKey(c)
                        THEN ch[CHOOSE c \in FetchCoins : k = HistoryKey(c)][t][k]
                        ELSE NoFile]
    IN  {<<Of(ch, 1), Of(ch, 2)>> : ch \in choices}

Busy(coin) == workers[coin].pc \notin {"start", "returned", "raised"}

Finished(coin) == workers[coin].pc \in {"returned", "raised"}

other_vars == <<last, last_set, promoted, nops, cg, ncalls, cacher, maps,
                coin_id, pc, cached_df, cg_raw, final_coin_df, chain_tvl_df,
                protocol_data_df, lunarcrush_df, calls, cache_sets, returned,
                universe_vars, assemble_vars, run, earlier, tiers_at_start>>

InitConcurrent ==
    /\ \E tiers \in ConcurrentTiers :
         /\ local = tiers[1]
         /\ remote = tiers[2]
         /\ tiers_at_start = tiers
    /\ workers = NoWorkers
    /\ run = 1
    /\ earlier = NoEarlier
    /\ CacheLogIdle
    /\ RetryIdle
    /\ FetchIdle
    /\ UniverseIdle
    /\ AssembleIdle

\* lines 388-395: the cache lookup and the short-circuit on a hit
WorkerBegin(coin) ==
    /\ workers[coin].pc = "start"
    /\ \E ex \in ExistsOutcomes, dl \in DownloadOutcomes :
         LET r == CacheGet(HistoryKey(coin), local, remote, ex, dl)
         IN  /\ local' = r.local
             /\ workers' = [workers EXCEPT ![coin] =
                  [@ EXCEPT !.exists = IF r.exists_calls = 1 THEN ex ELSE "none",
                            !.download = IF r.downloads = 1 THEN dl ELSE "none",
                            !.cached_df = r.result,
                            !.returned = r.result,
                            !.beside = \E o \in FetchCoins \ {coin} : Busy(o),
                            !.pc = IF r.raised THEN "raised"
                                   ELSE IF r.result # None THEN "returned"
                                   ELSE "cg"]]
    /\ UNCHANGED <<remote, other_vars>>

\* lines 397-400: Step 1
WorkerPrimary(coin) ==
    /\ workers[coin].pc = "cg"
    /\ \E raw \in CgResults :
         workers' = [workers EXCEPT ![coin] =
            [@ EXCEPT !.cg_raw = raw,
                      !.final_coin_df = MarketDF(raw),
                      !.returned = IF IsEmpty(MarketDF(raw)) THEN EmptyDF ELSE None,
                      !.pc = IF IsEmpty(MarketDF(raw)) THEN "returned" ELSE "chain"]]
    /\ UNCHANGED <<local, remote, other_vars>>

\* lines 402-410: chain TVL
WorkerChain(coin) ==
    /\ workers[coin].pc = "chain"
    /\ \E out \in ChainOutcomes :
         workers' = [workers EXCEPT ![coin] =
            [@ EXCEPT !.chain_tvl_df = IF WorkerMaps(coin).chain
                                       THEN ChainDF(out) ELSE EmptyDF,
                      !.pc = "protocol"]]
    /\ UNCHANGED <<local, remote, other_vars>>

\* lines 412-417: protocol TVL and DEX volume
WorkerProtocol(coin) ==
    /\ workers[coin].pc = "protocol"
    /\ \E tvl \in ProtocolOutcomes, dex \in ProtocolOutcomes :
         workers' = [workers EXCEPT ![coin] =
            [@ EXCEPT !.protocol_data_df = IF WorkerMaps(coin).protocol = "slug"
                                           THEN ProtocolDF(tvl, dex) ELSE EmptyDF,
                      !.pc = "lunarcrush"]]
    /\ UNCHANGED <<local, remote, other_vars>>

\* lines 419-420: LunarCrush
WorkerLunar(coin) ==
    /\ workers[coin].pc = "lunarcrush"
    /\ \E out \in LunarOutcomes :
         workers' = [workers EXCEPT ![coin] =
            [@ EXCEPT !.lunarcrush_df = IF WorkerMaps(coin).ticker # ""
                                        THEN LunarDF(out) ELSE EmptyDF,
                      !.pc = "merge"]]
    /\ UNCHANGED <<local, remote, other_vars>>

\* lines 422-438: Steps 4 and 5, and the return
WorkerMergeAndCache(coin) ==
    /\ workers[coin].pc = "merge"
    /\ LET w == workers[coin]
           merged == MergeAll(w.final_coin_df, w.chain_tvl_df,
                              w.protocol_data_df, w.lunarcrush_df)
       IN  IF ~IsEmpty(merged)
           THEN \E wr \in WriteOutcomes, up \in UploadOutcomes :
                  LET r == CacheSet(HistoryKey(coin), merged, local, remote, wr, up)
                  IN  /\ local' = r.local
                      /\ remote' = r.remote
                      /\ workers' = [workers EXCEPT ![coin] =
                           [@ EXCEPT !.final_coin_df = merged,
                                     !.returned = merged,
                                     !.write = wr,
                                     !.upload = IF wr = "ok" THEN up ELSE "none",
                                     !.pc = "returned"]]
           ELSE /\ workers' = [workers EXCEPT ![coin] =
                     [@ EXCEPT !.final_coin_df = merged, !.returned = merged,
                               !.pc = "returned"]]
                /\ UNCHANGED <<local, remote>>
    /\ UNCHANGED other_vars

NextConcurrent ==
    \E coin \in FetchCoins :
       \/ WorkerBegin(coin)
       \/ WorkerPrimary(coin)
       \/ WorkerChain(coin)
       \/ WorkerProtocol(coin)
       \/ WorkerLunar(coin)
       \/ WorkerMergeAndCache(coin)

SpecConcurrent == InitConcurrent /\ [][NextConcurrent]_vars

\* lines 382-438 as one call made alone on the tiers loc and rem, with the
\* source responses and the file and bucket outcomes the worker w met
FetchAndCacheAlone(coin, loc, rem, w) ==
    LET g == CacheGet(HistoryKey(coin), loc, rem, w.exists, w.download)
        base == MarketDF(w.cg_raw)
        merged == MergeAll(base, w.chain_tvl_df, w.protocol_data_df,
                           w.lunarcrush_df)
        s == CacheSet(HistoryKey(coin), merged, g.local, rem, w.write, w.upload)
    IN  IF g.raised
        THEN [returned |-> None, raised |-> TRUE, local |-> g.local, remote |-> rem]
        ELSE IF g.result # None
        THEN [returned |-> g.result, raised |-> FALSE, local |-> g.local, remote |-> rem]
        ELSE IF IsEmpty(base)
        THEN [returned |-> EmptyDF, raised |-> FALSE, local |-> g.local, remote |-> rem]
        ELSE IF IsEmpty(merged)
        THEN [returned |-> merged, raised |-> FALSE, local |-> g.local, remote |-> rem]
        ELSE [returned |-> merged, raised |-> FALSE, local |-> s.local,
              remote |-> s.remote]

\* the calls made one after another, in the given order
RECURSIVE RunInOrder(_, _, _)
RunInOrder(order, loc, rem) ==
    IF order = <<>>
    THEN [local |-> loc, remote |-> rem, results |-> <<>>]
    ELSE LET r == FetchAndCacheAlone(Head(order), loc, rem, workers[Head(order)])
             rest == RunInOrder(Tail(order), r.local, r.remote)
         IN  [local |-> rest.local, remote |-> rest.remote,
              results |-> <<r>> \o rest.results]

Orders == {o \in Pools(FetchCoins) : Len(o) = Cardinality(FetchCoins)}

\* C24: once every worker has finished, each asset's returned history (or
\* raised exception) and both tiers are what the same calls give when made
\* one after another, in either order, with the same responses; and while a
\* worker has not begun, no other worker has touched its cache key, nor has
\* any worker touched a key that is no asset's.
IndependenceAcrossAssets ==
    /\ (\A c \in FetchCoins : Finished(c)) =>
          \A order \in Orders :
             LET seq == RunInOrder(order, tiers_at_start[1], tiers_at_start[2])
             IN  /\ local = seq.local
                 /\ remote = seq.remote
                 /\ \A i \in 1..Len(order) :
                       /\ seq.results[i].returned = workers[order[i]].returned
                       /\ seq.results[i].raised = (workers[order[i]].pc = "raised")
    /\ \A c \in FetchCoins :
          workers[c].pc = "start" =>
             /\ local[HistoryKey(c)] = tiers_at_start[1][HistoryKey(c)]
             /\ remote[HistoryKey(c)] = tiers_at_start[2][HistoryKey(c)]
    /\ \A k \in AllKeys \ {HistoryKey(c) : c \in FetchCoins} :
          local[k] = tiers_at_start[1][k] /\ remote[k] = tiers_at_start[2][k]

\* both calls began while the other was under way, both fetched their asset
\* and both stored it in the two tiers
IndependenceAcrossAssetsWitness ==
    /\ \A c \in FetchCoins :
          /\ workers[c].pc = "returned"
          /\ workers[c].cached_df = None
          /\ ~IsEmpty(workers[c].returned)
          /\ local[HistoryKey(c)] = Serialize(workers[c].returned)
          /\ remote[HistoryKey(c)] = Serialize(workers[c].returned)
    /\ \E c \in FetchCoins : workers[c].beside
    /\ workers["bitcoin"].returned # workers["ethereum"].returned

\* C25: a set(K, P) whose local write succeeded leaves P's file under K in
\* the local tier and calls upload once, and the blob of K is then that
\* file if the upload succeeded and is untouched if it failed; a set whose
\* local write failed calls upload not at all and leaves the bucket as it
\* was; no blob other than K's changes.
SetOrdering ==
    [][last'.op = "set" =>
         LET k == last'.key
             s == last_set'[k]
         IN  /\ s.write = "ok" =>
                   /\ last'.uploads = 1
                   /\ local'[k] = Serialize(last'.data)
                   /\ s.upload = "ok" => remote'[k] = local'[k]
                   /\ s.upload # "ok" => remote'[k] = remote[k]
             /\ s.write # "ok" =>
                   /\ last'.uploads = 0
                   /\ remote' = remote
             /\ \A j \in AllKeys \ {k} :
                   remote'[j] = remote[j] /\ local'[j] = local[j]]_vars

\* a set whose local write broke off: no upload was made and the bucket
\* still holds the blob an earlier call stored
SetOrderingWitness ==
    /\ last.op = "set"
    /\ last_set[last.key].write = "fail_partial"
    /\ last.uploads = 0
    /\ local[last.key] = PartialFile
    /\ remote[last.key] \notin {NoFile, PartialFile}

\* line 523-524: the period slices concatenated in append order, from
\* START_DATE on
Concatenated ==
    SelectSeq(Concat(all_period_data), LAMBDA r : r.date >= START_DATE)

\* the positions of df whose row resolves to the canonical id and date
Resolving(df, id, date) ==
    {j \in 1..Len(df) : CanonicalId(df[j].coin_id) = id /\ df[j].date = date}

Last(S) == CHOOSE j \in S : \A o \in S : o <= j

\* C26: in the saved dataset every (canonical id, date) that some
\* concatenated row resolves to has one row, and it is the last such row in
\* concatenation order (its raw id and its place in that asset's history);
\* the first deduplication keeps for each (raw id, date) the last
\* concatenated row.
KeepLastOnCollision ==
    pc = "saved" =>
       /\ \A j \in 1..Len(Concatenated) :
             \E i \in 1..Len(master_df) :
                /\ master_df[i].canonical_id = CanonicalId(Concatenated[j].coin_id)
                /\ master_df[i].date = Concatenated[j].date
       /\ \A i \in 1..Len(master_df) :
             LET hits == Resolving(Concatenated, master_df[i].canonical_id,
                                   master_df[i].date)
             IN  /\ hits # {}
                 /\ master_df[i].coin_id = Concatenated[Last(hits)].coin_id
                 /\ master_df[i].n = Concatenated[Last(hits)].n
       /\ LET first == DropDuplicatesCoin(Concatenated)
          IN  \A j \in 1..Len(Concatenated) :
                 LET same == {k \in 1..Len(Concatenated) :
                                /\ Concatenated[k].coin_id = Concatenated[j].coin_id
                                /\ Concatenated[k].date = Concatenated[j].date}
                 IN  Cardinality({i \in 1..Len(first) :
                                    /\ first[i].coin_id = Concatenated[j].coin_id
                                    /\ first[i].date = Concatenated[j].date
                                    /\ first[i] = Concatenated[Last(same)]}) = 1

\* an alias and its underlying asset both gave a row for one date, the
\* underlying asset's first, and the alias's row is the one saved
KeepLastOnCollisionWitness ==
    /\ pc = "saved"
    /\ \E j, k \in 1..Len(Concatenated) :
          /\ j < k
          /\ Concatenated[j].coin_id = "bitcoin"
          /\ Concatenated[k].coin_id = "wrapped-bitcoin"
          /\ Concatenated[j].date = Concatenated[k].date
          /\ k = Last(Resolving(Concatenated, "bitcoin", Concatenated[k].date))
          /\ \E i \in 1..Len(master_df) :
                /\ master_df[i].date = Concatenated[k].date
                /\ master_df[i].coin_id = "wrapped-bitcoin"

\* C27: in main_pipeline.get_cg_market_data the accumulator holds a market
\* chart exactly when some attempt of the call obtained one; a call ended
\* by a non-transient failure returns the accumulator, chart only, if it
\* holds a chart and absent otherwise; a call ended by a rate-limit failure
\* has used up the retry cap and returns absent whatever the accumulator
\* holds.
PartialPrimaryAcrossAttempts ==
    (cg.impl = "main_pipeline" /\ Len(cg.log) > 0 /\ LastAttempt.exc # "none") =>
       /\ ChartObtained <=> cg.full_data.chart # "absent"
       /\ cg.full_data.ohlc = "absent"
       /\ (cg.status = "returned" /\ LastAttempt.exc = "other") =>
             IF ChartObtained
             THEN cg.result = cg.full_data /\ cg.result.kind = "raw"
             ELSE cg.result = NoneRaw
       /\ (cg.status = "returned" /\ LastAttempt.exc = "429") =>
             /\ Len(cg.log) = max_retries
             /\ cg.result = NoneRaw

\* the chart came in the first attempt, whose OHLC request was rate
\* limited; the second attempt's chart request failed for good, and the
\* first attempt's chart is returned
PartialPrimaryAcrossAttemptsWitness ==
    /\ cg.impl = "main_pipeline"
    /\ cg.status = "returned"
    /\ cg.log = <<[call |-> "ohlc", exc |-> "429"], [call |-> "chart", exc |-> "other"]>>
    /\ cg.result = RawDict("data", "absent")

====
